---- MODULE Spec2Model ----
(***************************************************************************)
(* Model of agent_browser/snapshot.py: the accessibility-snapshot parser,  *)
(* the reference assigner, the index builder, the search and the path      *)
(* resolver.  A snapshot text is a sequence of lines; each line is the     *)
(* outcome of matching it against element_pattern (kind "element" with the *)
(* captured groups, or kind "other" when the pattern does not match).      *)
(* Strings are TLA+ strings, so paths, prefixes and substring tests are    *)
(* computed on the characters as the Python code computes them.            *)
(* Model of agent_browser/agent.py around them: the AgentBrowser session   *)
(* (start, open, the registered pages and their ref maps, console          *)
(* recorders and stream servers) with its coroutines as tasks that         *)
(* interleave at their await points.                                       *)
(***************************************************************************)
EXTENDS Integers, Sequences, FiniteSets, TLC

VARIABLES
    aria_tree,  \* the accessibility snapshot text of the document the pages show
    op,         \* the operation whose result the caller holds, "none" between calls
    args,       \* its arguments
    ret,        \* its result
    agent,      \* the AgentBrowser's own fields
    pages,      \* self._pages: page_id -> PageState
    tasks,      \* the start() and open() coroutines in progress
    world       \* what Playwright was asked to launch so far, the console events
                \* it delivered and their recording tasks on the event loop

session == <<agent, pages, tasks, world>>

vars == <<aria_tree, op, args, ret, agent, pages, tasks, world>>

\* ------------------------------------------------------------------ bounds

\* Longest snapshot text, in lines.
MaxLines == 3

\* Deepest indentation level of a line (two spaces per level).
MaxDepth == 2

\* ------------------------------------------------------- Python values

\* Optional[...]: None is the empty sequence, a present value v is <<v>>.
None == <<>>

Some(v) == <<v>>

\* Python truthiness of an Optional[str]: None and "" are falsy.
Truthy(name) == name # None /\ name[1] # ""

\* `name or ''`
OrEmpty(name) == IF Truthy(name) THEN name[1] ELSE ""

Min(a, b) == IF a <= b THEN a ELSE b

Max(a, b) == IF a >= b THEN a ELSE b

\* ------------------------------------------------------------- strings

Char(s, i) == SubSeq(s, i, i)

RECURSIVE Spaces(_)
Spaces(n) == IF n = 0 THEN "" ELSE " " \o Spaces(n - 1)

\* str.startswith
StartsWith(s, p) == Len(p) <= Len(s) /\ SubSeq(s, 1, Len(p)) = p

\* `needle in text`
Contains(text, needle) ==
    \E i \in 1..(Len(text) - Len(needle) + 1) : SubSeq(text, i, i + Len(needle) - 1) = needle

\* str.count of a one-character string
CountChar(s, c) == Cardinality({i \in 1..Len(s) : Char(s, i) = c})

\* str.lower on the alphabet of the snapshot texts and queries drawn here.
LowerChar(c) ==
    CASE c = "B" -> "b"
      [] c = "S" -> "s"
      [] c = "T" -> "t"
      [] OTHER -> c

RECURSIVE Lower(_)
Lower(s) == IF s = "" THEN "" ELSE LowerChar(Char(s, 1)) \o Lower(Tail(s))

\* Code points of the characters a path is made of ('/' sorts before '0').
CharCode(c) ==
    CASE c = "/" -> 47
      [] c = "0" -> 48
      [] c = "1" -> 49
      [] c = "2" -> 50
      [] c = "3" -> 51
      [] c = "4" -> 52
      [] c = "5" -> 53
      [] c = "6" -> 54
      [] c = "7" -> 55
      [] c = "8" -> 56
      [] c = "9" -> 57

\* Python's `a < b` on strings: by code point, a proper prefix first.
RECURSIVE StrLess(_, _)
StrLess(a, b) ==
    IF b = "" THEN FALSE
    ELSE IF a = "" THEN TRUE
    ELSE IF Char(a, 1) # Char(b, 1) THEN CharCode(Char(a, 1)) < CharCode(Char(b, 1))
    ELSE StrLess(Tail(a), Tail(b))

\* ------------------------------------------------------------ role sets

INTERACTIVE_ROLES ==
    {"button", "link", "textbox", "checkbox", "radio", "combobox", "listbox",
     "menuitem", "menuitemcheckbox", "menuitemradio", "option", "searchbox",
     "slider", "spinbutton", "switch", "tab", "treeitem"}

CONTENT_ROLES ==
    {"heading", "cell", "gridcell", "columnheader", "rowheader", "listitem",
     "article", "region", "main", "navigation"}

STRUCTURAL_ROLES ==
    {"generic", "group", "list", "table", "row", "rowgroup", "grid", "treegrid",
     "menu", "menubar", "toolbar", "tablist", "tree", "directory", "document",
     "application", "presentation", "none"}

\* -------------------------------------------------------------- inputs

\* What element_pattern captures from a matching line, besides the indent:
\* the role token, the optional quoted name and the rest of the line.
Shape(role, name, suffix) == [role |-> role, name |-> name, suffix |-> suffix]

\* Shapes for the operations that work on the parsed tree.
TreeShapes ==
    {Shape("button",  Some("Save"),  ""),
     Shape("button",  None,          ""),
     Shape("heading", Some("Title"), ""),
     Shape("text",    None,          ": Save"),
     Shape("text",    None,          "")}

\* Shapes for the reference assigner: every role class, named and unnamed,
\* an empty quoted name, a role token that is not lowercase and a suffix.
RefShapes ==
    {Shape("button",  Some("Save"),  ""),
     Shape("button",  None,          ""),
     Shape("Button",  Some("Save"),  " [disabled]"),
     Shape("heading", Some("Title"), ""),
     Shape("heading", Some(""),      ""),
     Shape("generic", None,          ""),
     Shape("text",    None,          ": Save")}

\* Leading spaces of a line: the snapshot indents by two spaces per level.
TreeIndents == {2 * d : d \in 0..MaxDepth}

RefIndents == {0, 2}

ElementLines(shapes, indents) ==
    {[kind |-> "element", indent |-> i, role |-> s.role, name |-> s.name, suffix |-> s.suffix] :
        i \in indents, s \in shapes}

\* A non-empty line that element_pattern does not match.
OtherLine == [kind |-> "other", indent |-> 0, role |-> "", name |-> None, suffix |-> "- /url: x"]

RECURSIVE SeqsUpTo(_, _)
SeqsUpTo(S, n) ==
    IF n = 0 THEN {<<>>}
    ELSE LET shorter == SeqsUpTo(S, n - 1)
         IN  shorter \cup {Append(t, x) : t \in {u \in shorter : Len(u) = n - 1}, x \in S}

\* The snapshot texts: the empty text and every text of up to MaxLines lines.
TreeTexts == SeqsUpTo(ElementLines(TreeShapes, TreeIndents) \cup {OtherLine}, MaxLines)

RefTexts == SeqsUpTo(ElementLines(RefShapes, RefIndents) \cup {OtherLine}, MaxLines)

\* ---------------------------------------------------------------- parser

\* len(leading whitespace) // 2
get_indent_level(line) == line.indent \div 2

\* One iteration of the loop over the lines.
ParseLine(st, line) ==
    IF line.kind # "element" THEN st
    ELSE
      LET depth   == get_indent_level(line)
          node_id == Len(st.nodes)
          stack   == SubSeq(st.stack, 1, Min(Len(st.stack), depth))
          parent  == IF stack # <<>> THEN Some(stack[Len(stack)]) ELSE None
          node    == [id |-> node_id, role |-> Lower(line.role), name |-> line.name,
                      suffix |-> line.suffix, depth |-> depth, children |-> <<>>,
                      parent_id |-> parent, path |-> ""]
          linked  == IF parent # None
                     THEN [st.nodes EXCEPT ![parent[1] + 1].children = Append(@, node_id)]
                     ELSE st.nodes
      IN  [nodes    |-> Append(linked, node),
           root_ids |-> IF parent # None THEN st.root_ids ELSE Append(st.root_ids, node_id),
           stack    |-> Append(stack, node_id)]

RECURSIVE ParseLines(_, _)
ParseLines(st, lines) ==
    IF lines = <<>> THEN st ELSE ParseLines(ParseLine(st, Head(lines)), Tail(lines))

\* child_path = f"{path}/{idx}" if path else str(idx), idx from enumerate (0-based)
ChildPathOneBased(path, idx) ==
    IF path # "" THEN path \o "/" \o ToString(idx + 1) ELSE ToString(idx + 1)

ChildPath(path, idx) ==
    IF path # "" THEN path \o "/" \o ToString(idx) ELSE ToString(idx)

\* path_to_id[path] = node_id
RegisterPathStale(path_to_id, nodes, node_id, path) ==
    (nodes[node_id + 1].path :> node_id) @@ path_to_id

RegisterPath(path_to_id, nodes, node_id, path) == (path :> node_id) @@ path_to_id

\* assign_paths(node_id, path): acc is [nodes, path_to_id]
RECURSIVE assign_paths(_, _, _)
RECURSIVE assign_children(_, _, _, _)
assign_paths(acc, node_id, path) ==
    LET here == [nodes      |-> [acc.nodes EXCEPT ![node_id + 1].path = path],
                 path_to_id |-> RegisterPath(acc.path_to_id, acc.nodes, node_id, path)]
    IN  assign_children(here, node_id, path, 0)

assign_children(acc, node_id, path, idx) ==
    LET children == acc.nodes[node_id + 1].children
    IN  IF idx >= Len(children) THEN acc
        ELSE assign_children(assign_paths(acc, children[idx + 1], ChildPath(path, idx)),
                             node_id, path, idx + 1)

RECURSIVE assign_roots(_, _, _)
assign_roots(acc, root_ids, idx) ==
    IF idx >= Len(root_ids) THEN acc
    ELSE assign_roots(assign_paths(acc, root_ids[idx + 1], ToString(idx)), root_ids, idx + 1)

\* _parse_aria_snapshot(aria_tree) -> (nodes, root_ids, path_to_id)
parse_aria_snapshot(text) ==
    LET st  == ParseLines([nodes |-> <<>>, root_ids |-> <<>>, stack |-> <<>>], text)
        acc == assign_roots([nodes |-> st.nodes, path_to_id |-> <<>>], st.root_ids, 0)
    IN  [nodes |-> acc.nodes, root_ids |-> st.root_ids, path_to_id |-> acc.path_to_id]

\* ------------------------------------------------------------ node text

RECURSIVE LStrip(_)
LStrip(s) == IF s # "" /\ Char(s, 1) = " " THEN LStrip(Tail(s)) ELSE s

RECURSIVE RStrip(_)
RStrip(s) ==
    IF s # "" /\ Char(s, Len(s)) = " " THEN RStrip(SubSeq(s, 1, Len(s) - 1)) ELSE s

\* str.strip (blanks are the only whitespace of the texts drawn here)
Strip(s) == RStrip(LStrip(s))

\* re.sub(r"\s+", " ", s)
RECURSIVE CollapseSpaces(_)
CollapseSpaces(s) ==
    IF s = "" THEN ""
    ELSE IF Char(s, 1) = " " THEN " " \o CollapseSpaces(LStrip(s))
    ELSE Char(s, 1) \o CollapseSpaces(Tail(s))

IsDigit(c) == c \in {"0", "1", "2", "3", "4", "5", "6", "7", "8", "9"}

RECURSIVE LeadingDigits(_)
LeadingDigits(s) ==
    IF s # "" /\ IsDigit(Char(s, 1)) THEN 1 + LeadingDigits(Tail(s)) ELSE 0

\* Length of a match of \[ref=@e\d+\] at the start of s, 0 when there is none.
RefAnnotationLen(s) ==
    IF StartsWith(s, "[ref=@e")
    THEN LET rest == SubSeq(s, 8, Len(s))
             k    == LeadingDigits(rest)
         IN  IF k >= 1 /\ Len(rest) > k /\ Char(rest, k + 1) = "]" THEN 8 + k ELSE 0
    ELSE 0

\* re.sub(r"\[ref=@e\d+\]", "", s)
RECURSIVE RemoveRefs(_)
RemoveRefs(s) ==
    IF s = "" THEN ""
    ELSE LET n == RefAnnotationLen(s)
         IN  IF n > 0 THEN RemoveRefs(SubSeq(s, n + 1, Len(s)))
             ELSE Char(s, 1) \o RemoveRefs(Tail(s))

\* if cleaned.startswith(":"): cleaned = cleaned[1:].strip()
DropColon(cleaned) == IF StartsWith(cleaned, ":") THEN Strip(Tail(cleaned)) ELSE cleaned

\* _clean_suffix(suffix)
clean_suffix(suffix) ==
    IF suffix = "" THEN "" ELSE DropColon(Strip(CollapseSpaces(RemoveRefs(suffix))))

\* The stand-in for the one-character ellipsis U+2026.
Ellipsis == "~"

\* _truncate_text(text, limit)
truncate_text(text, limit) ==
    IF text = "" THEN ""
    ELSE IF Len(text) <= limit THEN text
    ELSE SubSeq(text, 1, limit) \o Ellipsis

\* _node_text_value(node)
node_text_value(node) ==
    IF Truthy(node.name) THEN node.name[1] ELSE clean_suffix(node.suffix)

\* label = role, then ' "text_hint"' when there is a hint
Label(role, text_hint) ==
    IF text_hint # "" THEN role \o " \"" \o text_hint \o "\"" ELSE role

\* _format_node_label(node, text_limit)
format_node_label(node, text_limit) ==
    Label(node.role, truncate_text(node_text_value(node), text_limit))

\* " | ".join(items), "; ".join(items)
RECURSIVE Join(_, _)
Join(sep, items) ==
    IF items = <<>> THEN ""
    ELSE IF Len(items) = 1 THEN items[1]
    ELSE items[1] \o sep \o Join(sep, Tail(items))

\* ---------------------------------------------------------- index builder

PRIORITY_ROLES ==
    {"heading", "button", "link", "textbox", "combobox", "listbox", "checkbox",
     "radio", "menuitem", "tab", "option", "searchbox", "switch"}

\* The end of add_text: record the hint unless its lowercase key was seen.
AddHint(st, text_hint, key) ==
    IF text_hint = "" \/ key \in st.seen THEN st
    ELSE [seen |-> st.seen \cup {key}, summary |-> Append(st.summary, text_hint)]

\* text_hint = _truncate_text(text, text_limit); key = text_hint.lower()
AddTruncated(st, text_hint) == AddHint(st, text_hint, Lower(text_hint))

\* add_text(text): st is [seen, summary]
AddText(st, text, text_limit) ==
    IF text = "" THEN st ELSE AddTruncated(st, truncate_text(text, text_limit))

\* One turn of the queue loop of _collect_summary, for the node popped.
SummaryVisit(st, node, text_limit) ==
    IF node.role \in PRIORITY_ROLES THEN AddText(st, node_text_value(node), text_limit) ELSE st

\* The loop of _collect_summary over the breadth-first queue.
RECURSIVE SummaryLoop(_, _, _, _, _)
SummaryLoop(nodes, queue, st, max_items, text_limit) ==
    IF queue = <<>> \/ Len(st.summary) >= max_items THEN st
    ELSE SummaryLoop(nodes, Tail(queue) \o nodes[Head(queue) + 1].children,
                     SummaryVisit(st, nodes[Head(queue) + 1], text_limit),
                     max_items, text_limit)

\* _collect_summary(nodes, node_id, max_items, text_limit)
collect_summary(nodes, node_id, max_items, text_limit) ==
    Join(" | ", SummaryLoop(nodes, <<node_id>>, [seen |-> {}, summary |-> <<>>],
                            max_items, text_limit).summary)

\* suffix = f" :: {summary}" if summary else ""
WithSummary(text, summary) == IF summary # "" THEN text \o " :: " \o summary ELSE text

\* _format_preview_item(nodes, node, text_limit, summary_items)
format_preview_item(nodes, node, text_limit, summary_items) ==
    WithSummary(Strip(format_node_label(node, text_limit) \o " [path=" \o node.path \o "]"),
                collect_summary(nodes, node.id, summary_items, text_limit))

\* summary_items = 6
SummaryItems == 6

\* grandchild_preview = 3
GrandchildPreview == 3

\* Expansion at every level above the requested depth, scoped or not.
ExpandChildrenAnyLevel(current_depth, depth, path_mode) ==
    current_depth < depth

\* Expansion that an unscoped call never gets.
ExpandChildrenScopedOnly(current_depth, depth, path_mode) ==
    current_depth < depth /\ path_mode

\* expand_children = current_depth < depth and (path_mode or current_depth == 0)
ExpandChildren(current_depth, depth, path_mode) ==
    current_depth < depth /\ (path_mode \/ current_depth = 0)

\* The children shown in a collapsed node's preview: child_ids[:grandchild_preview]
PreviewChildren(child_ids) == SubSeq(child_ids, 1, Min(Len(child_ids), GrandchildPreview))

\* preview_text = "; ".join(previews), then "+{extra} more" when extra > 0
WithExtra(joined, extra) ==
    IF extra > 0
    THEN (IF joined # "" THEN joined \o "; +" \o ToString(extra) \o " more"
          ELSE "+" \o ToString(extra) \o " more")
    ELSE joined

\* previews: one preview item for each of the children shown
Previews(nodes, shown, text_limit) ==
    [i \in 1..Len(shown) |->
        format_preview_item(nodes, nodes[shown[i] + 1], text_limit, SummaryItems)]

\* The text a node's line is given for its unexpanded children.
PreviewText(nodes, child_ids, text_limit) ==
    WithExtra(Join("; ", Previews(nodes, PreviewChildren(child_ids), text_limit)),
              Len(child_ids) - Min(GrandchildPreview, Len(child_ids)))

\* The paths of the nodes with the given ids.
PathsOf(nodes, ids) == [i \in 1..Len(ids) |-> nodes[ids[i] + 1].path]

\* A node's line: its text and, beside it, the paths the text was built from.
NodeLine(base, preview, path, preview_paths) ==
    [kind |-> "node",
     text |-> IF preview # "" THEN base \o " (grandchildren: " \o preview \o ")" ELSE base,
     path |-> path,
     preview_paths |-> preview_paths]

\* line = f"{indent}- {label} [path={node['path']}]", indent two blanks per level
LineBase(current_depth, label, path) ==
    Spaces(2 * current_depth) \o "- " \o label \o " [path=" \o path \o "]"

\* The line of a visited node; the preview only when it has children that
\* are not expanded.
RenderLine(nodes, node, current_depth, c) ==
    NodeLine(LineBase(current_depth, format_node_label(node, c.text_limit), node.path),
             IF ExpandChildren(current_depth, c.depth, c.path_mode) THEN ""
             ELSE PreviewText(nodes, node.children, c.text_limit),
             node.path,
             IF ExpandChildren(current_depth, c.depth, c.path_mode) THEN <<>>
             ELSE PathsOf(nodes, PreviewChildren(node.children)))

\* counter += 1; lines.append(line)
Emit(st, line) == [counter |-> st.counter + 1, lines |-> Append(st.lines, line)]

\* render_node(node_id, current_depth, indent): st is [counter, lines].
RECURSIVE render_node(_, _, _, _, _)
RECURSIVE render_children(_, _, _, _, _, _)
render_node(st, nodes, node_id, current_depth, c) ==
    IF st.counter >= c.max_nodes THEN st
    ELSE IF ExpandChildren(current_depth, c.depth, c.path_mode)
    THEN render_children(Emit(st, RenderLine(nodes, nodes[node_id + 1], current_depth, c)),
                         nodes, nodes[node_id + 1].children, 1, current_depth + 1, c)
    ELSE Emit(st, RenderLine(nodes, nodes[node_id + 1], current_depth, c))

render_children(st, nodes, ids, i, current_depth, c) ==
    IF i > Len(ids) THEN st
    ELSE render_children(render_node(st, nodes, ids[i], current_depth, c),
                         nodes, ids, i + 1, current_depth, c)

TextLine(text) == [kind |-> "text", text |-> text, path |-> "", preview_paths |-> <<>>]

\* f"index (path={path or 'root'}, depth={depth}, max_nodes={max_nodes})"
IndexHeader(path, depth, max_nodes) ==
    "index (path=" \o (IF Truthy(path) THEN path[1] ELSE "root")
    \o ", depth=" \o ToString(depth) \o ", max_nodes=" \o ToString(max_nodes) \o ")"

\* The end without the truncation line.
IndexLinesNeverTruncated(st, max_nodes, total) == st.lines

\* The end of build_snapshot_index_text: the truncation line.
IndexLines(st, max_nodes, total) ==
    IF st.counter >= max_nodes /\ st.counter < total
    THEN Append(st.lines, TextLine("... (truncated: returned " \o ToString(st.counter)
                                   \o " of " \o ToString(total) \o ")"))
    ELSE st.lines

\* build_snapshot_index_text once the text is parsed.
IndexOfParsed(parsed, path, depth, max_nodes, text_limit) ==
    IF path # None /\ path[1] \notin DOMAIN parsed.path_to_id
    THEN [status |-> "KeyError: unknown path", lines |-> <<>>]
    ELSE [status |-> "ok",
          lines  |-> IndexLines(
                         render_children(
                             [counter |-> 0,
                              lines |-> <<TextLine(IndexHeader(path, depth, max_nodes))>>],
                             parsed.nodes,
                             IF path # None THEN <<parsed.path_to_id[path[1]]>>
                             ELSE parsed.root_ids,
                             1, 0,
                             [depth |-> depth, max_nodes |-> max_nodes,
                              text_limit |-> text_limit, path_mode |-> path # None]),
                         max_nodes, Len(parsed.nodes))]

\* build_snapshot_index_text(aria_tree, path, depth, max_nodes, text_limit).
\* The result is the sequence of lines the code joins with "\n", or a KeyError.
build_snapshot_index_text(text, path, depth, max_nodes, text_limit) ==
    IF text = <<>> THEN [status |-> "ok", lines |-> <<TextLine("(empty)")>>]
    ELSE IndexOfParsed(parse_aria_snapshot(text), path, depth, max_nodes, text_limit)

\* ------------------------------------------------------------------ search

\* str.find: zero-based index of the first occurrence, -1 when there is none.
Find(text, needle) ==
    LET at == {i \in 0..(Len(text) - Len(needle)) : SubSeq(text, i + 1, i + Len(needle)) = needle}
    IN  IF at = {} THEN -1 ELSE CHOOSE i \in at : \A j \in at : i <= j

\* re.compile(query, re.I) on the queries drawn here, which are made of
\* letters, a leading "^" and "[": an opening bracket is never closed, so the
\* pattern is malformed exactly when it holds one.
RegexCompilesAlways(query) == TRUE

RegexCompiles(query) == ~Contains(query, "[")

\* The span of a literal found at start, or None when start is -1.
SpanAt(start, length) == IF start < 0 THEN None ELSE Some(<<start, start + length>>)

\* pattern.search(text): the span (start, end) of the first match, or None.  A
\* compiled pattern is a literal, anchored at the start when it begins with "^".
RegexSpan(query, text) ==
    IF StartsWith(query, "^")
    THEN IF StartsWith(Lower(text), Lower(Tail(query)))
         THEN Some(<<0, Len(query) - 1>>) ELSE None
    ELSE SpanAt(Find(Lower(text), Lower(query)), Len(query))

\* is_match(text) of either mode
IsMatch(query, mode, text) ==
    IF mode = "regex" THEN RegexSpan(query, text) # None
    ELSE Contains(Lower(text), Lower(query))

\* The span _match_snippet looks for: the regex's first match (None when the
\* pattern does not compile), or the first occurrence of the lowered query.
SnippetSpan(text, query, mode) ==
    IF mode = "regex"
    THEN (IF RegexCompiles(query) THEN RegexSpan(query, text) ELSE None)
    ELSE SpanAt(Find(Lower(text), Lower(query)), Len(query))

\* snippet = text[left:right], with an ellipsis on each side that was cut
Window(text, left, right) ==
    (IF left > 0 THEN Ellipsis ELSE "") \o SubSeq(text, left + 1, right)
    \o (IF right < Len(text) THEN Ellipsis ELSE "")

\* context = max(8, limit // 3); left = max(0, start - context);
\* right = min(len(text), end + context)
SnippetAround(text, span, context, limit) ==
    IF span = None THEN truncate_text(text, limit)
    ELSE truncate_text(Window(text, Max(0, span[1][1] - context),
                              Min(Len(text), span[1][2] + context)), limit)

\* _match_snippet(text, query, mode, limit)
match_snippet(text, query, mode, limit) ==
    IF text = "" THEN ""
    ELSE SnippetAround(text, SnippetSpan(text, query, mode), Max(8, limit \div 3), limit)

\* haystack = " ".join(part for part in [role, text_value, suffix] if part)
Haystack(node) ==
    Join(" ", SelectSeq(<<node.role, node_text_value(node), clean_suffix(node.suffix)>>,
                        LAMBDA part : part # ""))

\* source = text_value or suffix or haystack
SnippetSource(text_value, suffix, haystack) ==
    IF text_value # "" THEN text_value
    ELSE IF suffix # "" THEN suffix ELSE haystack

\* The result a matching node contributes.
SearchResult(node, haystack, query, mode, text_limit) ==
    [path |-> node.path,
     line |-> "- "
              \o Label(node.role,
                       match_snippet(SnippetSource(node_text_value(node),
                                                   clean_suffix(node.suffix), haystack),
                                     query, mode, text_limit))
              \o " [path=" \o node.path \o "]"]

\* if not haystack or not is_match(haystack): continue
Matching(haystack, query, mode) == haystack # "" /\ IsMatch(query, mode, haystack)

\* The loop over the nodes: collect matches, stop at limit * 4 results.
RECURSIVE CollectMatches(_, _, _, _, _, _, _)
RECURSIVE CollectNext(_, _, _, _, _, _, _)
CollectMatches(nodes, i, results, query, mode, limit, text_limit) ==
    IF i > Len(nodes) THEN results
    ELSE IF ~Matching(Haystack(nodes[i]), query, mode)
    THEN CollectMatches(nodes, i + 1, results, query, mode, limit, text_limit)
    ELSE CollectNext(nodes, i,
                     Append(results, SearchResult(nodes[i], Haystack(nodes[i]),
                                                  query, mode, text_limit)),
                     query, mode, limit, text_limit)

\* if len(results) >= limit * 4: break
CollectNext(nodes, i, results, query, mode, limit, text_limit) ==
    IF Len(results) >= limit * 4 THEN results
    ELSE CollectMatches(nodes, i + 1, results, query, mode, limit, text_limit)

\* key=lambda item: (item["path"].count("/"), item["path"])
SortKeyLess(a, b) ==
    LET da == CountChar(a.path, "/")
        db == CountChar(b.path, "/")
    IN  da < db \/ (da = db /\ StrLess(a.path, b.path))

\* list.sort: stable, ascending by key.
RECURSIVE InsertSorted(_, _)
InsertSorted(sorted, x) ==
    IF sorted = <<>> THEN <<x>>
    ELSE IF SortKeyLess(x, Head(sorted)) THEN <<x>> \o sorted
    ELSE <<Head(sorted)>> \o InsertSorted(Tail(sorted), x)

RECURSIVE SortResults(_)
SortResults(results) ==
    IF results = <<>> THEN <<>>
    ELSE InsertSorted(SortResults(SubSeq(results, 1, Len(results) - 1)), results[Len(results)])

\* path == kept or path.startswith(f"{kept}/")
CoveredByReversed(path, kept) == path = kept \/ StartsWith(kept, path \o "/")

CoveredBy(path, kept) == path = kept \/ StartsWith(path, kept \o "/")

\* pruned.append(item); kept_paths.append(path)
Keep(st, item) ==
    [pruned |-> Append(st.pruned, item), kept_paths |-> Append(st.kept_paths, item.path)]

\* The pruning loop: st is [pruned, kept_paths]; stop at limit kept results.
RECURSIVE Prune(_, _, _)
RECURSIVE PruneNext(_, _, _)
Prune(st, results, limit) ==
    IF results = <<>> THEN st
    ELSE IF \E k \in 1..Len(st.kept_paths) : CoveredBy(Head(results).path, st.kept_paths[k])
    THEN Prune(st, Tail(results), limit)
    ELSE PruneNext(Keep(st, Head(results)), results, limit)

\* if len(pruned) >= limit: break
PruneNext(st, results, limit) ==
    IF Len(st.pruned) >= limit THEN st ELSE Prune(st, Tail(results), limit)

\* The text returned: the header, then the kept results' lines or "(empty)".
SearchText(query, mode, limit, pruned) ==
    [status  |-> "ok",
     header  |-> Some("search (query=\"" \o query \o "\", mode=" \o mode
                      \o ", limit=" \o ToString(limit) \o ")"),
     results |-> pruned,
     body    |-> IF pruned # <<>>
                 THEN [i \in 1..Len(pruned) |-> pruned[i].line]
                 ELSE <<"(empty)">>]

\* search_snapshot_index_text(aria_tree, query, mode, limit, text_limit).  The
\* result is the header (None for the bare "(empty)" return) and the kept
\* results, each with its path and its rendered line, or a ValueError.
search_snapshot_index_text(text, query, mode, limit, text_limit) ==
    IF text = <<>> \/ query = ""
    THEN [status |-> "ok", header |-> None, results |-> <<>>, body |-> <<"(empty)">>]
    ELSE IF mode = "regex" /\ ~RegexCompiles(query)
    THEN [status |-> "ValueError: invalid regex", header |-> None, results |-> <<>>,
          body |-> <<>>]
    ELSE SearchText(query, mode, limit,
                    Prune([pruned |-> <<>>, kept_paths |-> <<>>],
                          SortResults(CollectMatches(parse_aria_snapshot(text).nodes, 1, <<>>,
                                                     query, mode, limit, text_limit)),
                          limit).pruned)

\* ----------------------------------------------------------- path resolver

\* What a counting loop of the resolver compares a candidate with.
Matches(candidate, crit) ==
    CASE crit.by = "text"      -> candidate.role = "text" /\ node_text_value(candidate) = crit.text
      [] crit.by = "role_name" -> candidate.role = crit.role /\ candidate.name = crit.name
      [] crit.by = "role"      -> candidate.role = crit.role

\* nth_index = 0; for candidate in nodes: if it matches: break at the node
\* itself, else nth_index += 1
RECURSIVE NthLoop(_, _, _, _, _)
NthLoop(nodes, i, node_id, crit, nth_index) ==
    IF i > Len(nodes) THEN nth_index
    ELSE IF Matches(nodes[i], crit)
         THEN IF nodes[i].id = node_id THEN nth_index
              ELSE NthLoop(nodes, i + 1, node_id, crit, nth_index + 1)
         ELSE NthLoop(nodes, i + 1, node_id, crit, nth_index)

NthIndexOfAllMatches(nodes, node_id, crit) ==
    Cardinality({i \in 1..Len(nodes) : Matches(nodes[i], crit)})

NthIndexOfOneBased(nodes, node_id, crit) == NthLoop(nodes, 1, node_id, crit, 1)

NthIndexOf(nodes, node_id, crit) == NthLoop(nodes, 1, node_id, crit, 0)

\* The parent itself, whatever its name and role.
ClimbFromParentOnly(nodes, parent_id) == parent_id

\* The walk up the parents of an unnamed text node: the first ancestor with a
\* name or a role other than text, or None.
RECURSIVE ClimbFrom(_, _)
ClimbFrom(nodes, parent_id) ==
    IF parent_id = None THEN None
    ELSE LET parent == nodes[parent_id[1] + 1]
         IN  IF Truthy(parent.name) \/ parent.role # "text" THEN Some(parent.id)
             ELSE ClimbFrom(nodes, parent.parent_id)

RoleLocator(node, role, name, nth) ==
    [status |-> "ok", locator |-> "get_by_role", role |-> role, name |-> name, text |-> "",
     nth |-> Some(nth), node_id |-> node.id]

TextLocator(node, text, nth) ==
    [status |-> "ok", locator |-> "get_by_text", role |-> "text", name |-> None, text |-> text,
     nth |-> Some(nth), node_id |-> node.id]

\* Every failure carries one and the same message.
ResolveErrorSameMessage(what) ==
    [status |-> "KeyError", locator |-> "", role |-> "", name |-> None, text |-> "", nth |-> None,
     node_id |-> -1]

ResolveError(what) ==
    [status |-> what, locator |-> "", role |-> "", name |-> None, text |-> "", nth |-> None,
     node_id |-> -1]

\* The part of resolve_path_locator after the target node is fixed.
LocateNode(nodes, node) ==
    IF Truthy(node.name)
    THEN LET nth == NthIndexOf(nodes, node.id,
                               [by |-> "role_name", role |-> node.role, name |-> node.name])
         IN  IF node.role = "text" THEN TextLocator(node, node.name[1], nth)
             ELSE RoleLocator(node, node.role, node.name, nth)
    ELSE RoleLocator(node, node.role, None,
                     NthIndexOf(nodes, node.id, [by |-> "role", role |-> node.role]))

\* resolve_path_locator(page, aria_tree, path): the locator it builds, as the
\* calls made on the page, or the KeyError it raises.
resolve_path_locator(text, path) ==
    IF text = <<>> THEN ResolveError("KeyError: empty snapshot")
    ELSE
      LET parsed == parse_aria_snapshot(text)
          nodes  == parsed.nodes
      IN  IF path \notin DOMAIN parsed.path_to_id THEN ResolveError("KeyError: unknown path")
          ELSE
            LET node       == nodes[parsed.path_to_id[path] + 1]
                text_value == node_text_value(node)
            IN  IF node.role = "text"
                THEN IF text_value # ""
                     THEN TextLocator(node, text_value,
                                      NthIndexOf(nodes, node.id, [by |-> "text", text |-> text_value]))
                     ELSE LET up == ClimbFrom(nodes, node.parent_id)
                          IN  IF up = None
                              THEN ResolveError("KeyError: text node without a name")
                              ELSE LocateNode(nodes, nodes[up[1] + 1])
                ELSE LocateNode(nodes, node)

\* ---------------------------------------------------- reference assigner

\* SnapshotOptions(interactive, max_depth, compact)
SnapshotOptions == [interactive : BOOLEAN, max_depth : {None, Some(0)}, compact : BOOLEAN]

\* The dash and the blank alone, the indentation lost.
PrefixFlattened(line) == "- "

\* Group 1 of element_pattern: the indentation, the dash and the blank after it.
Prefix(line) == Spaces(line.indent) \o "- "

\* _build_selector(role, name)
build_selector(role, name) ==
    IF Truthy(name)
    THEN "getByRole(\"" \o role \o "\", { name: \"" \o name[1] \o "\", exact: true })"
    ELSE "getByRole(\"" \o role \o "\")"

\* key = f"{role_lower}:{name or ''}"
RefKey(role_lower, name) == role_lower \o ":" \o OrEmpty(name)

\* The filters of the first loop: TRUE when the element line is dropped.
Dropped(line, options) ==
    LET role_lower == Lower(line.role)
        depth      == get_indent_level(line)
    IN  \/ (options.max_depth # None /\ depth > options.max_depth[1])
        \/ (options.interactive /\ role_lower \notin INTERACTIVE_ROLES)
        \/ (options.compact /\ role_lower \in STRUCTURAL_ROLES /\ ~Truthy(line.name))

\* dict.get(key, 0)
Get0(d, key) == IF key \in DOMAIN d THEN d[key] ELSE 0

\* First loop: parsed_lines and counts.  st is [parsed_lines, counts].
FirstPassLine(st, line, options) ==
    IF line.kind # "element"
    THEN [st EXCEPT !.parsed_lines = Append(@, [kind |-> "other", line |-> line.suffix])]
    ELSE IF Dropped(line, options)
    THEN [st EXCEPT !.parsed_lines = Append(@, [kind |-> "dropped"])]
    ELSE LET key == RefKey(Lower(line.role), line.name)
         IN  [parsed_lines |-> Append(st.parsed_lines,
                                      [kind |-> "element", prefix |-> Prefix(line),
                                       role |-> line.role, name |-> line.name,
                                       suffix |-> line.suffix, key |-> key]),
              counts       |-> (key :> (Get0(st.counts, key) + 1)) @@ st.counts]

RECURSIVE FirstPass(_, _, _)
FirstPass(st, lines, options) ==
    IF lines = <<>> THEN st
    ELSE FirstPass(FirstPassLine(st, Head(lines), options), Tail(lines), options)

\* should_have_ref = is_interactive or (is_content and name)
ShouldHaveRefAnyContent(role_lower, name) ==
    role_lower \in INTERACTIVE_ROLES \/ role_lower \in CONTENT_ROLES

ShouldHaveRef(role_lower, name) ==
    role_lower \in INTERACTIVE_ROLES \/ (role_lower \in CONTENT_ROLES /\ Truthy(name))

\* nth_index = key_counters.get(key, 0) if total > 1 else None
NthIndexAlways(total, key_counters, key) == Some(Get0(key_counters, key))

NthIndex(total, key_counters, key) ==
    IF total > 1 THEN Some(Get0(key_counters, key)) ELSE None

\* key_counters[key] = nth_index + 1, only when an nth was handed out
BumpCounterNever(key_counters, key, nth_index) == key_counters

BumpCounter(key_counters, key, nth_index) ==
    IF nth_index # None THEN (key :> (nth_index[1] + 1)) @@ key_counters ELSE key_counters

\* ref_index += 1; ref_id = f"e{ref_index}"
RefIdZeroBased(ref_index) == "e" \o ToString(ref_index - 1)

RefId(ref_index) == "e" \o ToString(ref_index)

\* f'{prefix}{role}' + f' "{name}"' if name
LineHead(entry) ==
    entry.prefix \o entry.role \o
    (IF Truthy(entry.name) THEN " \"" \o entry.name[1] \o "\"" ELSE "")

\* Second loop.  st is [refs, result_lines, ref_index, key_counters].
SecondPassEntry(st, entry, counts) ==
    IF entry.kind = "dropped" THEN st
    ELSE IF entry.kind = "other"
    THEN [st EXCEPT !.result_lines = Append(@, [kind |-> "other", text |-> entry.line,
                                                role |-> "", name |-> None, ref |-> None])]
    ELSE
      LET role_lower == Lower(entry.role)
      IN  IF ShouldHaveRef(role_lower, entry.name)
          THEN LET ref_index == st.ref_index + 1
                   ref_id    == RefId(ref_index)
                   total     == Get0(counts, entry.key)
                   nth_index == NthIndex(total, st.key_counters, entry.key)
                   target    == [selector |-> build_selector(role_lower, entry.name),
                                 role |-> role_lower, name |-> entry.name, nth |-> nth_index]
                   text      == LineHead(entry) \o " [ref=@" \o ref_id \o "]" \o entry.suffix
               IN  [refs         |-> (ref_id :> target) @@ st.refs,
                    result_lines |-> Append(st.result_lines,
                                            [kind |-> "element", text |-> text, role |-> entry.role,
                                             name |-> entry.name, ref |-> Some(ref_id)]),
                    ref_index    |-> ref_index,
                    key_counters |-> BumpCounter(st.key_counters, entry.key, nth_index)]
          ELSE [st EXCEPT !.result_lines =
                    Append(@, [kind |-> "element", text |-> LineHead(entry) \o entry.suffix,
                               role |-> entry.role, name |-> entry.name, ref |-> None])]

RECURSIVE SecondPass(_, _, _)
SecondPass(st, entries, counts) ==
    IF entries = <<>> THEN st
    ELSE SecondPass(SecondPassEntry(st, Head(entries), counts), Tail(entries), counts)

\* _build_snapshot_from_aria_tree(aria_tree, options) -> EnhancedSnapshot(tree, refs).
\* tree is the sequence of result lines that the code joins with "\n"; each
\* carries its text and, beside it, the role, name and ref the text was built from.
build_snapshot_from_aria_tree(text, options) ==
    IF text = <<>>
    THEN [tree |-> <<[kind |-> "other", text |-> "(empty)", role |-> "", name |-> None,
                      ref |-> None]>>,
          refs |-> <<>>]
    ELSE LET first  == FirstPass([parsed_lines |-> <<>>, counts |-> <<>>], text, options)
             second == SecondPass([refs |-> <<>>, result_lines |-> <<>>, ref_index |-> 0,
                                   key_counters |-> <<>>],
                                  first.parsed_lines, first.counts)
         IN  [tree |-> second.result_lines, refs |-> second.refs]

\* ------------------------------------------------------------ operations

\* Shapes of the texts the index builder and the search are run on.
IndexShapes ==
    {Shape("button",  Some("Save"),  ""),
     Shape("heading", Some("Title"), ""),
     Shape("text",    None,          ": Save")}

IndexTexts == SeqsUpTo(ElementLines(IndexShapes, TreeIndents) \cup {OtherLine}, MaxLines)

\* Shapes of the texts the path resolver is run on: named and unnamed nodes
\* of one role, and text nodes with a name, with a text value and with neither.
ResolveShapes ==
    {Shape("button",  Some("Save"),  ""),
     Shape("button",  None,          ""),
     Shape("heading", Some("Title"), ""),
     Shape("text",    Some("Save"),  ""),
     Shape("text",    None,          ": Save"),
     Shape("text",    None,          "")}

\* The snapshot the browser serialises is an outline: its first line is not
\* indented and a line is at most one level deeper than the line before it.
WellNested(text) ==
    \A i \in 1..Len(text) : text[i].indent <= (IF i = 1 THEN 0 ELSE text[i - 1].indent + 2)

ResolveTexts ==
    {text \in SeqsUpTo(ElementLines(ResolveShapes, TreeIndents) \cup {OtherLine}, MaxLines) :
        WellNested(text)}

\* text_limit: int = 80
DefaultTextLimit == 80

\* max_nodes: int = 200
DefaultMaxNodes == 200

\* The snapshot texts of a document shown in a page.
PageTexts ==
    {text \in SeqsUpTo(ElementLines(IndexShapes, TreeIndents) \cup {OtherLine}, MaxLines) :
        WellNested(text)}

\* Lines of the long texts the search is run on: enough matching nodes for
\* the candidate list to fill up at a limit of 2.
MaxLongLines == 9

\* Outlines of buttons named "Save", at the root level and one level below.
LongTexts ==
    {text \in SeqsUpTo(ElementLines({Shape("button", Some("Save"), "")}, RefIndents),
                       MaxLongLines) :
        WellNested(text)}

\* ----------------------------------------------------------------- session

\* Coroutines of start() and open() that may be in progress at once.
MaxTasks == 2

\* Invocations of start() and open() in one behaviour.
MaxCalls == 3

\* Console messages recorded in one behaviour.
MaxEntries == 3

\* Latest reading of the clock.
MaxTime == 3

\* PageState(page=page): the dataclass defaults
NewPageState == [refs |-> <<>>, console |-> <<>>, stream_server |-> None]

\* page_id = f"p{self._page_counter}"
PageId(n) == "p" \o ToString(n)

\* A task slot with no coroutine in it.
NoTask == [kind |-> "none", pc |-> "done", handle |-> 0, result |-> ""]

\* AgentBrowser.__init__: nothing is started and no page is registered.
Constructed ==
    /\ agent = [playwright |-> None, browser |-> None, context |-> None, page_counter |-> 0,
                stream_all_config |-> None, stream_all_page_ids |-> {}]
    /\ pages = <<>>
    /\ tasks = [t \in 1..MaxTasks |-> NoTask]
    /\ world = [playwrights |-> 0, browsers |-> 0, contexts |-> 0, calls |-> 0,
                delivered |-> 0, recording |-> <<>>]

\* The session after one open() has run to completion on its own.
Opened ==
    /\ agent = [playwright |-> Some(1), browser |-> Some(1), context |-> Some(1),
                page_counter |-> 1, stream_all_config |-> None, stream_all_page_ids |-> {}]
    /\ pages = (PageId(1) :> NewPageState)
    /\ tasks = [t \in 1..MaxTasks |-> NoTask]
    /\ world = [playwrights |-> 1, browsers |-> 1, contexts |-> 1, calls |-> 1,
                delivered |-> 0, recording |-> <<>>]

Idle == op = "none" /\ args = <<>> /\ ret = <<>>

InitTree == aria_tree \in TreeTexts /\ Idle /\ Constructed

InitRefs == aria_tree \in RefTexts /\ Idle /\ Constructed

InitIndex == aria_tree \in IndexTexts /\ Idle /\ Constructed

InitResolve == aria_tree \in ResolveTexts /\ Idle /\ Constructed

\* A page is open on a document.
InitPage == aria_tree \in PageTexts /\ Idle /\ Opened

\* A page is open on a blank document.
InitBlankPage == aria_tree = <<>> /\ Idle /\ Opened

\* Nothing is started; the pages will show a blank document.
InitSession == aria_tree = <<>> /\ Idle /\ Constructed

\* A long outline is at hand, nothing is started.
InitLong == aria_tree \in LongTexts /\ Idle /\ Constructed

Init ==
    \/ InitTree \/ InitRefs \/ InitIndex \/ InitResolve
    \/ InitPage \/ InitBlankPage \/ InitSession \/ InitLong

\* A call of _parse_aria_snapshot on the snapshot text.
Parse ==
    /\ op = "none"
    /\ op' = "parse"
    /\ args' = <<>>
    /\ ret' = parse_aria_snapshot(aria_tree)
    /\ UNCHANGED <<aria_tree, session>>

\* A call of _build_snapshot_from_aria_tree with any options.
BuildSnapshot ==
    /\ op = "none"
    /\ \E options \in SnapshotOptions :
        /\ op' = "refs"
        /\ args' = options
        /\ ret' = build_snapshot_from_aria_tree(aria_tree, options)
        /\ UNCHANGED <<aria_tree, session>>

\* A call of build_snapshot_index_text: unscoped, on a path of the tree or on
\* a path that is not in it.
BuildIndex ==
    /\ op = "none"
    /\ \E path \in {None, Some("0"), Some("0/0"), Some("1"), Some("7")},
          depth \in 0..2, max_nodes \in {1, 2, DefaultMaxNodes} :
        /\ op' = "index"
        /\ args' = [path |-> path, depth |-> depth, max_nodes |-> max_nodes,
                    text_limit |-> DefaultTextLimit]
        /\ ret' = build_snapshot_index_text(aria_tree, path, depth, max_nodes, DefaultTextLimit)
        /\ UNCHANGED <<aria_tree, session>>

\* A call of search_snapshot_index_text.
Search ==
    /\ op = "none"
    /\ \E query \in {"", "save", "t", "^t", "["}, mode \in {"fuzzy", "regex"}, limit \in 0..2 :
        /\ op' = "search"
        /\ args' = [query |-> query, mode |-> mode, limit |-> limit,
                    text_limit |-> DefaultTextLimit]
        /\ ret' = search_snapshot_index_text(aria_tree, query, mode, limit, DefaultTextLimit)
        /\ UNCHANGED <<aria_tree, session>>

\* A call of resolve_path_locator on a path of the parsed tree or on one that
\* is not in it.
ResolvePath ==
    /\ op = "none"
    /\ \E path \in DOMAIN parse_aria_snapshot(aria_tree).path_to_id \cup {"7"} :
        /\ op' = "resolve"
        /\ args' = [path |-> path]
        /\ ret' = resolve_path_locator(aria_tree, path)
        /\ UNCHANGED <<aria_tree, session>>

\* The caller has consumed the result; nothing of the call is kept.
Return ==
    /\ op # "none"
    /\ op' = "none"
    /\ args' = <<>>
    /\ ret' = <<>>
    /\ UNCHANGED <<aria_tree, session>>

\* ------------------------------------------------- operations on a page

\* A page id that open() never returned.
UnknownPage == "p0"

\* _get_state(page_id): raise KeyError unless the page is registered
UnknownPageError == [status |-> "KeyError: unknown page_id"]

\* AgentBrowser.snapshot_index(page_id, path, depth, max_nodes, text_limit):
\* the page's snapshot text is handed to build_snapshot_index_text with the
\* caller's arguments as they are.
SnapshotIndex ==
    /\ op = "none"
    /\ \E page_id \in DOMAIN pages \cup {UnknownPage},
          path \in {None, Some("root"), Some("0"), Some("0/0")},
          depth \in 0..2, max_nodes \in {0, 1, 2, DefaultMaxNodes} :
        /\ op' = "snapshot_index"
        /\ args' = [page_id |-> page_id, path |-> path, depth |-> depth,
                    max_nodes |-> max_nodes, text_limit |-> DefaultTextLimit]
        /\ ret' = IF page_id \notin DOMAIN pages THEN UnknownPageError
                  ELSE build_snapshot_index_text(aria_tree, path, depth, max_nodes,
                                                 DefaultTextLimit)
    /\ UNCHANGED <<aria_tree, session>>

\* AgentBrowser.snapshot_search(page_id, query, mode, limit, text_limit)
SnapshotSearch ==
    /\ op = "none"
    /\ \E page_id \in DOMAIN pages \cup {UnknownPage},
          query \in {"", "save", "t", "["}, mode \in {"fuzzy", "regex"}, limit \in 0..2 :
        /\ op' = "snapshot_search"
        /\ args' = [page_id |-> page_id, query |-> query, mode |-> mode, limit |-> limit,
                    text_limit |-> DefaultTextLimit]
        /\ ret' = IF page_id \notin DOMAIN pages THEN UnknownPageError
                  ELSE search_snapshot_index_text(aria_tree, query, mode, limit,
                                                  DefaultTextLimit)
    /\ UNCHANGED <<aria_tree, session>>

\* The index in the text of its k-th element line, looked for from line i.
RECURSIVE ElementLineIndex(_, _, _)
ElementLineIndex(text, i, k) ==
    IF text[i].kind = "element"
    THEN (IF k = 1 THEN i ELSE ElementLineIndex(text, i + 1, k - 1))
    ELSE ElementLineIndex(text, i + 1, k)

\* The last line of the subtree of the element of line i.
RECURSIVE SubtreeEnd(_, _, _)
SubtreeEnd(text, i, j) ==
    IF j < Len(text) /\ text[j + 1].kind = "element" /\ text[j + 1].indent > text[i].indent
    THEN SubtreeEnd(text, i, j + 1)
    ELSE j

\* locator.aria_snapshot() of the element of line i: the lines of its
\* subtree, indented from the element.
AriaSnapshotOf(text, i) ==
    [k \in 1..(SubtreeEnd(text, i, i) - i + 1) |->
        [text[i + k - 1] EXCEPT !.indent = @ - text[i].indent]]

\* The lines of the text that are elements.
ElementsOf(text) == {i \in 1..Len(text) : text[i].kind = "element"}

\* What a CSS selector can match in the document: no element, one element or
\* two, each given by its line.
SelectorMatches(text) ==
    {<<>>}
    \cup {<<i>> : i \in ElementsOf(text)}
    \cup {m \in ElementsOf(text) \X ElementsOf(text) : m[1] < m[2]}

\* The elements of the page a path locator matches, in document order.
LocatorMatches(nodes, loc) ==
    SelectSeq(nodes,
              LAMBDA n : IF loc.locator = "get_by_text"
                         THEN n.role = "text" /\ node_text_value(n) = loc.text
                         ELSE n.role = loc.role /\ (Truthy(loc.name) => n.name = loc.name))

\* .nth(n) of them: its line, or None when there are not that many.
NthLine(text, matches, nth) ==
    IF nth < Len(matches) THEN Some(ElementLineIndex(text, 1, matches[nth + 1].id + 1))
    ELSE None

\* The line of the element a resolved path locator designates.
LocatedLine(text, loc) ==
    NthLine(text, LocatorMatches(parse_aria_snapshot(text).nodes, loc), loc.nth[1])

\* SnapshotOptions(): the defaults
DefaultOptions == [interactive |-> FALSE, max_depth |-> None, compact |-> FALSE]

\* The options snapshot() is called with here.
PageOptions == {o \in SnapshotOptions : o.max_depth = None /\ ~o.compact}

\* One rendered snapshot of a call, with the refs it assigned.
Section(label, snapshot) ==
    [label |-> label, timed_out |-> FALSE, tree |-> snapshot.tree, refs |-> snapshot.refs]

\* f"[timeout after {snapshot_timeout_ms}ms]" in place of a tree
TimeoutSection(label) == [label |-> label, timed_out |-> TRUE, tree |-> <<>>, refs |-> <<>>]

\* get_enhanced_snapshot_locator under try/except PlaywrightTimeoutError
BuildTree(text, line, label, timed_out, options) ==
    IF timed_out THEN TimeoutSection(label)
    ELSE Section(label, build_snapshot_from_aria_tree(AriaSnapshotOf(text, line), options))

\* get_enhanced_snapshot under try/except PlaywrightTimeoutError
BuildRoot(text, label, timed_out, options) ==
    IF timed_out THEN TimeoutSection(label)
    ELSE Section(label, build_snapshot_from_aria_tree(text, options))

\* What a call returns and the ref map it leaves in the page state.
Outcome(status, sections, refs) == [status |-> status, sections |-> sections, refs |-> refs]

\* if update_refs: state.refs = snapshot.refs (never on a timeout)
Updated(section, refs) ==
    Outcome("ok", <<section>>, IF section.timed_out THEN refs ELSE section.refs)

\* The sections of a selector that matched several elements; none updates
\* the ref map.
SelectorSections(text, matches, timeouts, options) ==
    [k \in 1..Len(matches) |->
        BuildTree(text, matches[k], "section (selector)#" \o ToString(k), k \in timeouts,
                  options)]

\* The part of snapshot() and of snapshot_section_snapshot() for a selector.
WithSelector(text, matches, timeouts, options, refs) ==
    IF Len(matches) = 0
    THEN Outcome("ValueError: selector matched no elements", <<>>, refs)
    ELSE IF Len(matches) = 1
    THEN Updated(BuildTree(text, matches[1], "", 1 \in timeouts, options), refs)
    ELSE Outcome("ok", SelectorSections(text, matches, timeouts, options), refs)

\* AgentBrowser.snapshot on a registered page.
snapshot(text, options, selector, timeouts, refs) ==
    IF selector = None THEN Updated(BuildRoot(text, "", 1 \in timeouts, options), refs)
    ELSE WithSelector(text, selector[1], timeouts, options, refs)

\* build_tree for the locator of a resolved path; a locator that designates
\* no element waits until the timeout.
PathTree(text, line, label, timed_out) ==
    IF line = None THEN TimeoutSection(label)
    ELSE BuildTree(text, line[1], label, timed_out, DefaultOptions)

\* One section of a call with several paths: build_root() for "0" and
\* "root", else build_tree(resolve_path_locator(...)); None when the path
\* does not resolve.
PathSection(text, path, loc, timed_out) ==
    IF path \in {"0", "root"}
    THEN Some(BuildRoot(text, "section (path=" \o path \o ")", timed_out, DefaultOptions))
    ELSE IF loc.status # "ok" THEN None
    ELSE Some(PathTree(text, LocatedLine(text, loc), "section (path=" \o path \o ")",
                       timed_out))

\* The loop over several paths; it stops at the first path that does not
\* resolve, and the call raises its KeyError.
RECURSIVE PathSections(_, _, _, _, _)
PathSectionsNext(text, paths, k, timeouts, done, section) ==
    IF section = None
    THEN [status |-> resolve_path_locator(text, paths[k]).status, sections |-> <<>>]
    ELSE PathSections(text, paths, k + 1, timeouts, Append(done, section[1]))

PathSections(text, paths, k, timeouts, done) ==
    IF k > Len(paths) THEN [status |-> "ok", sections |-> done]
    ELSE PathSectionsNext(text, paths, k, timeouts, done,
                          PathSection(text, paths[k], resolve_path_locator(text, paths[k]),
                                      k \in timeouts))

\* The call with one path that is neither "0" nor "root".
OnePath(text, loc, timed_out, refs) ==
    IF loc.status # "ok" THEN Outcome(loc.status, <<>>, refs)
    ELSE Updated(PathTree(text, LocatedLine(text, loc), "", timed_out), refs)

\* The call with several paths: no section updates the ref map.
SeveralPaths(result, refs) == Outcome(result.status, result.sections, refs)

\* AgentBrowser.snapshot_section_snapshot on a registered page.  paths is
\* the path argument split at commas and blanks, None when no path is given;
\* snapshot_timed_out is the outcome of the call's own aria_snapshot.
snapshot_section_snapshot(text, paths, selector, snapshot_timed_out, timeouts, refs) ==
    IF selector # None THEN WithSelector(text, selector[1], timeouts, DefaultOptions, refs)
    ELSE IF paths = None THEN Outcome("ValueError: path or selector needed", <<>>, refs)
    ELSE IF Len(paths[1]) = 1 /\ paths[1][1] \in {"0", "root"}
    THEN Updated(BuildRoot(text, "", 1 \in timeouts, DefaultOptions), refs)
    ELSE IF snapshot_timed_out
    THEN Outcome("ok", [k \in 1..Len(paths[1]) |->
                            TimeoutSection(IF Len(paths[1]) = 1 THEN ""
                                           ELSE "section (path=" \o paths[1][k] \o ")")],
                 refs)
    ELSE IF Len(paths[1]) = 1
    THEN OnePath(text, resolve_path_locator(text, paths[1][1]), 1 \in timeouts, refs)
    ELSE SeveralPaths(PathSections(text, paths[1], 1, timeouts, <<>>), refs)

\* The caller receives the call's text or error; the page state keeps the
\* ref map the call left.
Returned(page_id, outcome) ==
    /\ ret' = [status |-> outcome.status, sections |-> outcome.sections]
    /\ pages' = [pages EXCEPT ![page_id].refs = outcome.refs]

\* The call failed in _get_state.
NoSuchPage ==
    /\ ret' = [status |-> UnknownPageError.status, sections |-> <<>>]
    /\ pages' = pages

\* The snapshots of one call that can time out on their own.
Timeouts == SUBSET (1..2)

\* AgentBrowser.snapshot(page_id, interactive, max_depth, compact, selector)
Snapshot ==
    /\ op = "none"
    /\ \E page_id \in DOMAIN pages \cup {UnknownPage}, options \in PageOptions,
          selector \in {None} \cup {Some(m) : m \in SelectorMatches(aria_tree)},
          timeouts \in Timeouts :
        /\ op' = "snapshot"
        /\ args' = [page_id |-> page_id, options |-> options, selector |-> selector,
                    timeouts |-> timeouts]
        /\ IF page_id \notin DOMAIN pages THEN NoSuchPage
           ELSE Returned(page_id,
                         snapshot(aria_tree, options, selector, timeouts, pages[page_id].refs))
    /\ UNCHANGED <<aria_tree, agent, tasks, world>>

\* The path arguments of a section snapshot, split: one path or two.
SectionPaths ==
    {<<p>> : p \in {"0", "root", "0/0", "1", "7"}}
    \cup {<<p, q>> : p, q \in {"0", "0/0", "7"}}

\* AgentBrowser.snapshot_section_snapshot(page_id, path, selector)
SectionSnapshot ==
    /\ op = "none"
    /\ \E page_id \in DOMAIN pages \cup {UnknownPage},
          target \in {[paths |-> None, selector |-> None]}
                     \cup {[paths |-> Some(p), selector |-> None] : p \in SectionPaths}
                     \cup {[paths |-> None, selector |-> Some(m)] :
                              m \in SelectorMatches(aria_tree)},
          snapshot_timed_out \in BOOLEAN, timeouts \in Timeouts :
        /\ op' = "section"
        /\ args' = [page_id |-> page_id, paths |-> target.paths, selector |-> target.selector,
                    snapshot_timed_out |-> snapshot_timed_out, timeouts |-> timeouts]
        /\ IF page_id \notin DOMAIN pages THEN NoSuchPage
           ELSE Returned(page_id,
                         snapshot_section_snapshot(aria_tree, target.paths, target.selector,
                                                   snapshot_timed_out, timeouts,
                                                   pages[page_id].refs))
    /\ UNCHANGED <<aria_tree, agent, tasks, world>>

\* ------------------------------------------------------ start and open

\* A coroutine at an await, or finished with its result.
Awaiting(kind, pc, handle) == [kind |-> kind, pc |-> pc, handle |-> handle, result |-> ""]

Finished(kind, result) == [kind |-> kind, pc |-> "done", handle |-> 0, result |-> result]

\* start() up to its first await: `if self._browser: return`, else
\* `await async_playwright().start()`.  open() begins with `await
\* self.start()` and, when start() returns at once, goes on to `if not
\* self._context: raise RuntimeError` and `await self._context.new_page()`.
Called(kind) ==
    IF agent.browser = None THEN Awaiting(kind, "playwright", world.playwrights + 1)
    ELSE IF kind = "start" THEN Finished(kind, "ok")
    ELSE IF agent.context = None THEN Finished(kind, "RuntimeError: no browser context")
    ELSE Awaiting(kind, "page", 0)

\* An invocation of start() in a free task slot.
CallStart(t) ==
    /\ tasks[t].pc = "done"
    /\ world.calls < MaxCalls
    /\ tasks' = [tasks EXCEPT ![t] = Called("start")]
    /\ world' = [world EXCEPT !.calls = @ + 1,
                              !.playwrights = IF agent.browser = None THEN @ + 1 ELSE @]
    /\ UNCHANGED <<aria_tree, op, args, ret, agent, pages>>

\* An invocation of open(url) in a free task slot.
CallOpen(t) ==
    /\ tasks[t].pc = "done"
    /\ world.calls < MaxCalls
    /\ tasks' = [tasks EXCEPT ![t] = Called("open")]
    /\ world' = [world EXCEPT !.calls = @ + 1,
                              !.playwrights = IF agent.browser = None THEN @ + 1 ELSE @]
    /\ UNCHANGED <<aria_tree, op, args, ret, agent, pages>>

\* self._playwright = <result>; then `await self._playwright.chromium.launch(...)`
PlaywrightStarted(t) ==
    /\ tasks[t].pc = "playwright"
    /\ agent' = [agent EXCEPT !.playwright = Some(tasks[t].handle)]
    /\ world' = [world EXCEPT !.browsers = @ + 1]
    /\ tasks' = [tasks EXCEPT ![t] = Awaiting(@.kind, "launch", world.browsers + 1)]
    /\ UNCHANGED <<aria_tree, op, args, ret, pages>>

\* self._browser = <result>; then `await self._browser.new_context(...)`
BrowserLaunched(t) ==
    /\ tasks[t].pc = "launch"
    /\ agent' = [agent EXCEPT !.browser = Some(tasks[t].handle)]
    /\ world' = [world EXCEPT !.contexts = @ + 1]
    /\ tasks' = [tasks EXCEPT ![t] = Awaiting(@.kind, "context", world.contexts + 1)]
    /\ UNCHANGED <<aria_tree, op, args, ret, pages>>

\* self._context = <result>; start() returns, and open() goes on to
\* `await self._context.new_page()`.
ContextCreated(t) ==
    /\ tasks[t].pc = "context"
    /\ agent' = [agent EXCEPT !.context = Some(tasks[t].handle)]
    /\ tasks' = [tasks EXCEPT ![t] = IF @.kind = "start" THEN Finished("start", "ok")
                                     ELSE Awaiting("open", "page", 0)]
    /\ UNCHANGED <<aria_tree, op, args, ret, pages, world>>

\* The page exists; open() awaits goto and the scripts it evaluates.
PageCreated(t) ==
    /\ tasks[t].pc = "page"
    /\ tasks' = [tasks EXCEPT ![t] = Awaiting("open", "goto", 0)]
    /\ UNCHANGED <<aria_tree, op, args, ret, agent, pages, world>>

\* StreamServer.__init__: the names of its parameters
StreamServerParams ==
    {"page", "on_frame", "on_status", "image_format", "quality", "max_width", "max_height",
     "every_nth_frame", "fallback_interval"}

\* The keywords _start_stream_for_page passes to StreamServer besides the
\* positional page.
StreamServerKeywords ==
    {"page_id", "on_frame", "on_status", "image_format", "quality", "max_width",
     "max_height", "every_nth_frame"}

\* StreamServer(...) then start(): the running server, or None when the
\* constructor does not accept a keyword and the call raises TypeError.
NewStreamServer(keywords, config) ==
    IF keywords \subseteq StreamServerParams
    THEN Some([running |-> TRUE, image_format |-> config.image_format,
               on_status |-> config.on_status])
    ELSE None

StreamTypeError == "TypeError: unexpected keyword argument"

\* _start_stream_for_page(page_id, config) on a registered page: the status
\* and the page state it leaves.
StartStreamWith(state, server) ==
    IF server = None THEN [status |-> StreamTypeError, state |-> state]
    ELSE [status |-> "ok", state |-> [state EXCEPT !.stream_server = server]]

start_stream_for_page(state, config) ==
    IF state.stream_server # None THEN [status |-> "ok", state |-> state]
    ELSE StartStreamWith(state, NewStreamServer(StreamServerKeywords, config))

\* _register_page(page): the page is registered under the next id; with a
\* stream-all configuration its stream is started before the id is returned.
Registered(t, page_id, started) ==
    /\ pages' = (page_id :> started.state) @@ pages
    /\ agent' = [agent EXCEPT
                    !.page_counter = @ + 1,
                    !.stream_all_page_ids =
                        IF agent.stream_all_config # None /\ started.status = "ok"
                        THEN @ \cup {page_id} ELSE @]
    /\ tasks' = [tasks EXCEPT ![t] = Finished("open", IF started.status = "ok" THEN page_id
                                                      ELSE started.status)]

\* goto and the scripts are done; open() registers the page and returns.
PageLoaded(t) ==
    /\ tasks[t].pc = "goto"
    /\ Registered(t, PageId(agent.page_counter + 1),
                  IF agent.stream_all_config = None
                  THEN [status |-> "ok", state |-> NewPageState]
                  ELSE start_stream_for_page(NewPageState, agent.stream_all_config[1]))
    /\ UNCHANGED <<aria_tree, op, args, ret, world>>

\* --------------------------------------------------------------- streams

\* The registered pages in the order of self._pages (registration order).
PageOrder == SelectSeq([n \in 1..agent.page_counter |-> PageId(n)],
                       LAMBDA page_id : page_id \in DOMAIN pages)

\* The loop of stream_start("*") over the pages; st is [status, pages,
\* all_ids, servers] and the first failure ends the call.
RECURSIVE StartAll(_, _, _, _)
StartAllNext(order, k, config, st, started) ==
    IF started.status # "ok" THEN [st EXCEPT !.status = started.status]
    ELSE StartAll(order, k + 1, config,
                  [status  |-> "ok",
                   pages   |-> [st.pages EXCEPT ![order[k]] = started.state],
                   all_ids |-> IF st.pages[order[k]].stream_server = None
                               THEN st.all_ids \cup {order[k]} ELSE st.all_ids,
                   servers |-> (order[k] :> started.state.stream_server) @@ st.servers])

StartAll(order, k, config, st) ==
    IF k > Len(order) THEN st
    ELSE StartAllNext(order, k, config, st, start_stream_for_page(st.pages[order[k]], config))

\* The end of a stream_start call: what the caller gets and what is kept.
StreamStarted(st, config_kept) ==
    /\ ret' = [status |-> st.status, servers |-> st.servers]
    /\ pages' = st.pages
    /\ agent' = [agent EXCEPT !.stream_all_config = config_kept,
                              !.stream_all_page_ids = st.all_ids]

\* stream_start for one registered page.
StartOne(page_id, started) ==
    [status  |-> started.status,
     pages   |-> [pages EXCEPT ![page_id] = started.state],
     all_ids |-> agent.stream_all_page_ids,
     servers |-> IF started.status = "ok" THEN (page_id :> started.state.stream_server)
                 ELSE <<>>]

\* AgentBrowser.stream_start(page_id, on_frame, on_status, image_format, ...)
StreamStart ==
    /\ op = "none"
    /\ \E page_id \in DOMAIN pages \cup {"*", UnknownPage},
          config \in [image_format : {"jpeg", "png"}, on_status : {None, Some("on_status")}] :
        /\ op' = "stream_start"
        /\ args' = [page_id |-> page_id, config |-> config, open |-> DOMAIN pages,
                    streaming |-> {p \in DOMAIN pages : pages[p].stream_server # None}]
        /\ IF page_id = "*"
           THEN StreamStarted(StartAll(PageOrder, 1, config,
                                       [status |-> "ok", pages |-> pages,
                                        all_ids |-> agent.stream_all_page_ids,
                                        servers |-> <<>>]),
                              Some(config))
           ELSE IF page_id \notin DOMAIN pages
           THEN /\ ret' = [status |-> UnknownPageError.status, servers |-> <<>>]
                /\ UNCHANGED <<pages, agent>>
           ELSE StreamStarted(StartOne(page_id, start_stream_for_page(pages[page_id], config)),
                              agent.stream_all_config)
    /\ UNCHANGED <<aria_tree, tasks, world>>

\* The loop of stream_stop("*"): the servers of the pages stream_start("*")
\* started are stopped and dropped.
StopAll(ids) ==
    [p \in DOMAIN pages |-> IF p \in ids THEN [pages[p] EXCEPT !.stream_server = None]
                            ELSE pages[p]]

\* AgentBrowser.stream_stop(page_id)
StreamStop ==
    /\ op = "none"
    /\ \E page_id \in DOMAIN pages \cup {"*"} :
        /\ op' = "stream_stop"
        /\ args' = [page_id |-> page_id]
        /\ ret' = [status |-> "ok"]
        /\ IF page_id = "*"
           THEN /\ pages' = StopAll(agent.stream_all_page_ids)
                /\ agent' = [agent EXCEPT !.stream_all_page_ids = {},
                                          !.stream_all_config = None]
           ELSE /\ pages' = [pages EXCEPT ![page_id].stream_server = None]
                /\ agent' = [agent EXCEPT !.stream_all_page_ids = @ \ {page_id}]
    /\ UNCHANGED <<aria_tree, tasks, world>>

\* A step of a start() or open() coroutine.
Coroutine ==
    \E t \in 1..MaxTasks :
        \/ CallStart(t) \/ CallOpen(t) \/ PlaywrightStarted(t) \/ BrowserLaunched(t)
        \/ ContextCreated(t) \/ PageCreated(t) \/ PageLoaded(t)

\* --------------------------------------------------------------- console

\* ConsoleRecorder(max_entries: int = 1000)
DefaultMaxEntries == 1000

\* xs[-n:] of Python for n >= 0: the last n items, and all of them for n = 0
\* because -0 is 0.
LastItems(xs, n) == IF n = 0 THEN xs ELSE SubSeq(xs, Max(1, Len(xs) - n + 1), Len(xs))

\* self._entries.append(entry); if len(self._entries) > self._max_entries:
\* self._entries = self._entries[-self._max_entries:]
record_entry(entries, entry, max_entries) ==
    IF Len(entries) + 1 > max_entries THEN LastItems(Append(entries, entry), max_entries)
    ELSE Append(entries, entry)

\* [entry for entry in self._entries if entry.timestamp >= since]
Since(entries, since) == SelectSeq(entries, LAMBDA entry : entry.timestamp >= since)

\* ConsoleRecorder.get_entries(since, limit)
get_entries(entries, since, limit) ==
    IF since = None THEN LastItems(entries, limit)
    ELSE LastItems(Since(entries, since[1]), limit)

\* The time of the latest recorded entry; time.time() does not go back.
LastTime(entries) == IF entries = <<>> THEN 1 ELSE entries[Len(entries)].timestamp

\* Arguments of a console message; each is serialised with an await.
MaxArgs == 1

\* The text of the k-th console message the pages deliver.
MessageText(k) == "m" \o ToString(k)

\* _handle_console(message): asyncio.create_task(self._record_entry(message)).
\* The page delivers its next console event and a task is created for it; the
\* task has not run yet.
HandleConsole ==
    /\ op = "none"
    /\ world.delivered < MaxEntries
    /\ \E page_id \in DOMAIN pages, nargs \in 0..MaxArgs :
          world' = [world EXCEPT
                       !.delivered = @ + 1,
                       !.recording = Append(@, [page_id |-> page_id, seq |-> world.delivered + 1,
                                                pending |-> nargs, started |-> FALSE])]
    /\ UNCHANGED <<aria_tree, op, args, ret, agent, pages, tasks>>

\* The sequence without its i-th item.
Without(xs, i) == SubSeq(xs, 1, i - 1) \o SubSeq(xs, i + 1, Len(xs))

\* The end of _record_entry, run without a suspension: the entry is built
\* with the time of this moment and appended, and the task is over.
EntryAppended(i, now) ==
    /\ pages' = [pages EXCEPT ![world.recording[i].page_id].console =
                    record_entry(@, [timestamp |-> now, type |-> "log",
                                     text |-> MessageText(world.recording[i].seq)],
                                 DefaultMaxEntries)]
    /\ world' = [world EXCEPT !.recording = Without(@, i)]

\* The task runs up to its next `await arg.json_value()` and is suspended.
Suspended(i, pending) ==
    /\ world' = [world EXCEPT !.recording[i] = [@ EXCEPT !.pending = pending, !.started = TRUE]]
    /\ pages' = pages

\* The event loop runs a task of _record_entry: a new task for the first
\* time, the tasks starting in the order of their creation, or a suspended
\* task whose awaited argument has arrived.
RecordEntry ==
    /\ op = "none"
    /\ \E i \in 1..Len(world.recording) :
          LET task    == world.recording[i]
              pending == IF task.started THEN task.pending - 1 ELSE task.pending
          IN  /\ ~task.started => \A j \in 1..(i - 1) : world.recording[j].started
              /\ IF pending > 0 THEN Suspended(i, pending)
                 ELSE \E now \in LastTime(pages[task.page_id].console)..MaxTime :
                          EntryAppended(i, now)
    /\ UNCHANGED <<aria_tree, op, args, ret, agent, tasks>>

\* AgentBrowser.console_get(page_id, since, limit)
ConsoleGet ==
    /\ op = "none"
    /\ \E page_id \in DOMAIN pages \cup {UnknownPage},
          since \in {None} \cup {Some(time) : time \in 1..MaxTime}, limit \in 0..2 :
        /\ op' = "console_get"
        /\ args' = [page_id |-> page_id, since |-> since, limit |-> limit]
        /\ ret' = IF page_id \notin DOMAIN pages
                  THEN [status |-> UnknownPageError.status, entries |-> <<>>]
                  ELSE [status |-> "ok",
                        entries |-> get_entries(pages[page_id].console, since, limit)]
    /\ UNCHANGED <<aria_tree, session>>

\* ------------------------------------------------- actions on an element

\* click, fill, select, press, check, uncheck, upload and inner_html: each
\* begins with _get_state and _get_locator_with_note.
ElementMethods ==
    {"click", "fill", "select", "press", "check", "uncheck", "upload", "inner_html"}

\* Pages a click can open besides the pages that open() registered.
MaxPopups == 1

\* re.fullmatch(r"\d+", s)
AllDigits(s) == s # "" /\ \A i \in 1..Len(s) : IsDigit(Char(s, i))

\* re.fullmatch(r"e\d+", selector_or_ref)
IsRefId(s) == StartsWith(s, "e") /\ AllDigits(Tail(s))

\* _is_path(selector_or_ref)
is_path(s) == Contains(s, "/") \/ AllDigits(s)

\* What _get_locator_with_note hands back: the way the argument was read, the
\* locator built (or the error raised) and the note.
Located(via, locator, note) == [via |-> via, locator |-> locator, note |-> note]

\* _resolve_ref_locator(state, ref_id)
resolve_ref_locator(refs, ref_id) ==
    IF ref_id \notin DOMAIN refs
    THEN [status |-> "KeyError: Unknown ref", locator |-> "", role |-> "", name |-> None,
          nth |-> None]
    ELSE [status |-> "ok", locator |-> "get_by_role", role |-> refs[ref_id].role,
          name |-> IF Truthy(refs[ref_id].name) THEN refs[ref_id].name ELSE None,
          nth |-> refs[ref_id].nth]

\* AgentBrowser._resolve_path_locator(state, path): a fresh snapshot of the
\* page, which can time out, then resolve_path_locator.
resolve_page_path(text, path, timed_out) ==
    IF timed_out THEN ResolveError("ValueError: path snapshot timed out")
    ELSE resolve_path_locator(text, path)

\* state.page.locator(selector_or_ref); .first and a note when it matches
\* more than one element.
CssLocator(selector, count) ==
    Located("css",
            [status |-> "ok", locator |-> "css", selector |-> selector, first |-> count > 1],
            IF count <= 1 THEN None ELSE Some(count))

\* _get_locator_with_note(state, selector_or_ref); count is the number of
\* elements the page's selector engine finds for the argument.
get_locator_with_note(refs, text, selector_or_ref, count, timed_out) ==
    IF StartsWith(selector_or_ref, "@")
    THEN Located("ref", resolve_ref_locator(refs, Tail(selector_or_ref)), None)
    ELSE IF IsRefId(selector_or_ref)
    THEN Located("ref", resolve_ref_locator(refs, selector_or_ref), None)
    ELSE IF is_path(selector_or_ref)
    THEN Located("path", resolve_page_path(text, selector_or_ref, timed_out), None)
    ELSE CssLocator(selector_or_ref, count)

\* The arguments the element methods are called with: refs of the map and
\* outside it, with and without "@", CSS selectors with and without a slash,
\* and index paths.
SelectorArgs ==
    {"@e1", "e1", "@e7", "e7", "@x", "#submit", "a[href=\"/x\"]", "0", "0/0"}

\* What the caller of an element method receives.
ElementResult(status, got, new_page_ids) ==
    [status |-> status, via |-> got.via, locator |-> got.locator, note |-> got.note,
     new_page_ids |-> new_page_ids]

\* The driver's action on the located element raised.
ActionFailed == "Exception: the element action failed"

\* The method returns or raises without a new page.
ElementDone(status, got) ==
    /\ ret' = ElementResult(status, got, <<>>)
    /\ UNCHANGED <<pages, agent>>

\* _click_locator: the click has opened a page, which is registered
\* (_register_page) and reported.
PopupRegistered(got, page_id, started) ==
    /\ ret' = ElementResult(started.status, got,
                            IF started.status = "ok" THEN <<page_id>> ELSE <<>>)
    /\ pages' = (page_id :> started.state) @@ pages
    /\ agent' = [agent EXCEPT
                    !.page_counter = @ + 1,
                    !.stream_all_page_ids =
                        IF agent.stream_all_config # None /\ started.status = "ok"
                        THEN @ \cup {page_id} ELSE @]

\* The part of an element method after the locator is built: the driver acts
\* on the element or raises; a click may open a page.
ActOn(method, got, acted, popup) ==
    IF got.locator.status # "ok" THEN ElementDone(got.locator.status, got)
    ELSE IF ~acted THEN ElementDone(ActionFailed, got)
    ELSE IF method = "click" /\ popup
    THEN PopupRegistered(got, PageId(agent.page_counter + 1),
                         IF agent.stream_all_config = None
                         THEN [status |-> "ok", state |-> NewPageState]
                         ELSE start_stream_for_page(NewPageState, agent.stream_all_config[1]))
    ELSE ElementDone("ok", got)

\* AgentBrowser.click / fill / select / press / check / uncheck / upload /
\* inner_html (page_id, selector_or_ref, ...).  The document is taken to stay
\* as it is.
ElementAction ==
    /\ op = "none"
    /\ \E page_id \in DOMAIN pages \cup {UnknownPage}, method \in ElementMethods,
          selector_or_ref \in SelectorArgs, count \in 0..2,
          timed_out \in BOOLEAN, acted \in BOOLEAN, popup \in BOOLEAN :
        /\ count = 0 => ~acted
        /\ popup => Cardinality(DOMAIN pages) - 1 < MaxPopups
        /\ op' = method
        /\ args' = [page_id |-> page_id, selector_or_ref |-> selector_or_ref]
        /\ IF page_id \notin DOMAIN pages
           THEN /\ ret' = [status |-> UnknownPageError.status, via |-> "", locator |-> <<>>,
                           note |-> None, new_page_ids |-> <<>>]
                /\ UNCHANGED <<pages, agent>>
           ELSE ActOn(method,
                      get_locator_with_note(pages[page_id].refs, aria_tree, selector_or_ref,
                                            count, timed_out),
                      acted, popup)
    /\ UNCHANGED <<aria_tree, tasks, world>>


Next ==
    \/ Parse \/ BuildSnapshot \/ BuildIndex \/ Search \/ ResolvePath \/ Return
    \/ SnapshotIndex \/ SnapshotSearch \/ Snapshot \/ SectionSnapshot
    \/ Coroutine \/ StreamStart \/ StreamStop \/ HandleConsole \/ RecordEntry \/ ConsoleGet
    \/ ElementAction

Spec == Init /\ [][Next]_vars

SpecParse == InitTree /\ [][Parse \/ Return]_vars

SpecRefs == InitRefs /\ [][BuildSnapshot \/ Return]_vars

SpecIndex == InitIndex /\ [][BuildIndex \/ Return]_vars

SpecSearch == InitIndex /\ [][Search \/ Return]_vars

SpecSearchLong == InitLong /\ [][Search \/ Return]_vars

SpecResolve == InitResolve /\ [][ResolvePath \/ Return]_vars

SpecPage == InitPage /\ [][SnapshotIndex \/ SnapshotSearch \/ Return]_vars

SpecSnapshot == InitPage /\ [][Snapshot \/ SectionSnapshot \/ Return]_vars

SpecConsole == InitBlankPage /\ [][HandleConsole \/ RecordEntry \/ ConsoleGet \/ Return]_vars

SpecElement == InitPage /\ [][Snapshot \/ ElementAction \/ Return]_vars

SpecSession == InitSession /\ [][Coroutine \/ StreamStart \/ StreamStop \/ Return]_vars

\* ------------------------------------------------------ claims: parser

\* Element lines of a text, in order.
ElementDepths(text) ==
    LET RECURSIVE Go(_)
        Go(ls) == IF ls = <<>> THEN <<>>
                  ELSE IF Head(ls).kind = "element"
                       THEN <<get_indent_level(Head(ls))>> \o Go(Tail(ls))
                       ELSE Go(Tail(ls))
    IN  Go(text)

\* The first element line is at depth 0 and no line is more than one level
\* deeper than the element line before it.
IndentConsistent(text) ==
    LET ds == ElementDepths(text)
    IN  /\ ds # <<>> => ds[1] = 0
        /\ \A i \in 2..Len(ds) : ds[i] <= ds[i - 1] + 1

\* Zero-based position of x in sequence q, as a set (empty when absent).
IndexIn(q, x) == {i - 1 : i \in {j \in 1..Len(q) : q[j] = x}}

\* C1: after parsing an indentation-consistent text, every non-root node's
\* path is its parent's path, "/" and its zero-based index among the parent's
\* children; every root's path is its index in the root list; no two nodes
\* share a path, and the path index maps each path to exactly its node.
C1_PathsWellFormed ==
    (op = "parse" /\ IndentConsistent(aria_tree)) =>
        LET nodes == ret.nodes
            N     == 1..Len(nodes)
        IN  /\ \A i \in N :
                  LET n == nodes[i]
                  IN  IF n.parent_id = None
                      THEN IndexIn(ret.root_ids, n.id) # {}
                           /\ \A k \in IndexIn(ret.root_ids, n.id) : n.path = ToString(k)
                      ELSE LET par == nodes[n.parent_id[1] + 1]
                           IN  /\ IndexIn(par.children, n.id) # {}
                               /\ \A k \in IndexIn(par.children, n.id) :
                                      n.path = par.path \o "/" \o ToString(k)
            /\ \A i, j \in N : i # j => nodes[i].path # nodes[j].path
            /\ DOMAIN ret.path_to_id = {nodes[i].path : i \in N}
            /\ \A i \in N : ret.path_to_id[nodes[i].path] = nodes[i].id

\* A consistent text with a second root that has a child.
C1_Witness ==
    /\ op = "parse"
    /\ IndentConsistent(aria_tree)
    /\ \E i \in 1..Len(ret.nodes) : ret.nodes[i].path = "1/0"
    /\ \E i \in 1..Len(ret.nodes) : ret.nodes[i].path = "0"

\* -------------------------------------------- claims: reference assigner

\* The element lines of the returned tree, in output order.
OutElements == SelectSeq(ret.tree, LAMBDA l : l.kind = "element")

\* (role, name-or-empty) key of an output line and of a ref target.
LineKey(l) == RefKey(Lower(l.role), l.name)

TargetKey(t) == RefKey(t.role, t.name)

\* Number of retained element lines with the key.
KeyCount(key) == Cardinality({i \in 1..Len(OutElements) : LineKey(OutElements[i]) = key})

\* Output positions of the lines that carry a ref with the key.
RefPositions(key) ==
    {i \in 1..Len(OutElements) :
        OutElements[i].ref # None /\ LineKey(OutElements[i]) = key}

TargetAt(i) == ret.refs[OutElements[i].ref[1]]

\* C2: within one call, two distinct refs whose targets share (role, name)
\* have different nth values, and for each key shared by more than one
\* retained line the nth values handed out are exactly 0..count-1, in
\* document order.
C2_NthDistinctAndDense ==
    op = "refs" =>
        /\ \A a, b \in DOMAIN ret.refs :
              (a # b /\ ret.refs[a].role = ret.refs[b].role /\ ret.refs[a].name = ret.refs[b].name)
                  => ret.refs[a].nth # ret.refs[b].nth
        /\ \A r \in DOMAIN ret.refs :
              LET key == TargetKey(ret.refs[r])
                  pos == RefPositions(key)
              IN  KeyCount(key) > 1 =>
                    /\ \A i \in pos : TargetAt(i).nth # None
                    /\ {TargetAt(i).nth[1] : i \in pos} = 0..(KeyCount(key) - 1)
                    /\ \A i, j \in pos : i < j => TargetAt(i).nth[1] < TargetAt(j).nth[1]

\* Two refs share a key while a filter is active.
C2_Witness ==
    /\ op = "refs"
    /\ args.compact
    /\ \E a, b \in DOMAIN ret.refs :
          /\ ret.refs[a].role = ret.refs[b].role /\ ret.refs[a].name = ret.refs[b].name
          /\ ret.refs[a].nth = Some(0) /\ ret.refs[b].nth = Some(1)

\* C3: a ref target carries no nth if and only if its (role, name-or-empty)
\* key occurs exactly once among the retained element lines.
C3_NthAbsentIffUnique ==
    op = "refs" =>
        \A r \in DOMAIN ret.refs :
            (ret.refs[r].nth = None) <=> (KeyCount(TargetKey(ret.refs[r])) = 1)

\* One ref without nth beside two that carry one.
C3_Witness ==
    /\ op = "refs"
    /\ \E a, b \in DOMAIN ret.refs :
          /\ ret.refs[a].nth = None /\ KeyCount(TargetKey(ret.refs[a])) = 1
          /\ ret.refs[b].nth = Some(1) /\ KeyCount(TargetKey(ret.refs[b])) = 2

\* C4: a retained element line receives a reference (the [ref=@eN]
\* annotation in its text and an entry in the ref map for its role and name)
\* if and only if its role is interactive, or a content role with a
\* non-empty name.
C4_RefIffEligible ==
    op = "refs" =>
        \A i \in 1..Len(OutElements) :
            LET l        == OutElements[i]
                role     == Lower(l.role)
                eligible == role \in INTERACTIVE_ROLES
                            \/ (role \in CONTENT_ROLES /\ l.name # None /\ l.name # Some(""))
            IN  /\ (l.ref # None) <=> eligible
                /\ Contains(l.text, "[ref=@") <=> eligible
                /\ l.ref # None =>
                      /\ l.ref[1] \in DOMAIN ret.refs
                      /\ Contains(l.text, " [ref=@" \o l.ref[1] \o "]")
                      /\ ret.refs[l.ref[1]].role = role
                      /\ ret.refs[l.ref[1]].name = l.name

\* A content line without a name, a structural line and an unclassified line
\* are retained without a ref beside an interactive line with one.
C4_Witness ==
    /\ op = "refs"
    /\ \E i, j, k \in 1..Len(OutElements) :
          /\ OutElements[i].role = "heading" /\ OutElements[i].ref = None
          /\ OutElements[j].role \in {"generic", "text"} /\ OutElements[j].ref = None
          /\ OutElements[k].role = "Button" /\ OutElements[k].ref # None

\* The refs of the annotated lines, in output order.
OutRefs ==
    LET annotated == SelectSeq(OutElements, LAMBDA l : l.ref # None)
    IN  [i \in 1..Len(annotated) |-> annotated[i].ref[1]]

\* Number of retained lines that are eligible for a reference.
EligibleCount ==
    Cardinality({i \in 1..Len(OutElements) :
        LET role == Lower(OutElements[i].role)
        IN  role \in INTERACTIVE_ROLES
            \/ (role \in CONTENT_ROLES /\ Truthy(OutElements[i].name))})

\* C5: the ref ids of one call are exactly e1..eN, N the number of retained
\* eligible lines, in the order of the annotated lines; every call starts
\* again at e1.
C5_RefIdsSequential ==
    op = "refs" =>
        /\ Len(OutRefs) = EligibleCount
        /\ \A i \in 1..Len(OutRefs) : OutRefs[i] = "e" \o ToString(i)
        /\ DOMAIN ret.refs = {"e" \o ToString(i) : i \in 1..EligibleCount}

\* A call that hands out three refs.
C5_Witness ==
    /\ op = "refs"
    /\ OutRefs = <<"e1", "e2", "e3">>

\* ---------------------------------------------------------- claims: search

\* The segments of a path, as strings.
RECURSIVE Segments(_)
Segments(path) ==
    LET cut == Find(path, "/")
    IN  IF cut < 0 THEN <<path>>
        ELSE <<SubSeq(path, 1, cut)>> \o Segments(SubSeq(path, cut + 2, Len(path)))

\* a is b or an ancestor of b, segment by segment.
AncestorOrSelf(a, b) ==
    LET sa == Segments(a)
        sb == Segments(b)
    IN  Len(sa) <= Len(sb) /\ SubSeq(sb, 1, Len(sa)) = sa

\* C6: no two entries of one search result list have paths where one equals
\* or is an ancestor (a segment-aligned prefix) of the other.
C6_ResultsPrefixFree ==
    (op = "search" /\ ret.status = "ok") =>
        \A i, j \in 1..Len(ret.results) :
            i # j => ~AncestorOrSelf(ret.results[i].path, ret.results[j].path)

\* Two results are kept while a matching node below one of them is pruned.
C6_Witness ==
    /\ op = "search"
    /\ ret.status = "ok"
    /\ Len(ret.results) = 2
    /\ LET nodes == parse_aria_snapshot(aria_tree).nodes
       IN  \E i \in 1..Len(nodes) :
              /\ IsMatch(args.query, args.mode, Haystack(nodes[i]))
              /\ nodes[i].path # ret.results[1].path
              /\ AncestorOrSelf(ret.results[1].path, nodes[i].path)

\* C10 as stated: in regex mode a malformed query fails with the
\* invalid-query error and returns no text, whatever the snapshot text, the
\* empty one included.
C10_Original ==
    (op = "search" /\ args.mode = "regex" /\ args.query = "[") =>
        (ret.status = "ValueError: invalid regex" /\ ret.body = <<>>)

\* C10, amended: in regex mode a malformed query fails with the invalid-query
\* error and returns no text for every non-empty snapshot text, one without
\* element lines included; on the empty text the search returns "(empty)".
C10_Amended ==
    (op = "search" /\ args.mode = "regex" /\ args.query = "[") =>
        IF aria_tree # <<>>
        THEN ret.status = "ValueError: invalid regex" /\ ret.body = <<>>
        ELSE ret.status = "ok" /\ ret.body = <<"(empty)">>

\* The malformed query fails on a non-empty text that has no element line.
C10_Witness ==
    /\ op = "search"
    /\ args.mode = "regex"
    /\ args.query = "["
    /\ aria_tree = <<OtherLine>>
    /\ ret.status = "ValueError: invalid regex"

\* ----------------------------------------------------------- claims: index

\* The paths a listing shows: of its node lines and of their previews.
ShownPaths(lines) ==
    UNION {{lines[i].path} \cup {lines[i].preview_paths[k] : k \in 1..Len(lines[i].preview_paths)} :
              i \in {j \in 1..Len(lines) : lines[j].kind = "node"}}

\* C7: every path in the output of an unscoped index build, in a node line
\* or in a preview, is a key of the path index of the same parse, so resolving
\* it does not fail with the unknown-path error.
C7_IndexPathsResolve ==
    (op = "index" /\ args.path = None /\ ret.status = "ok") =>
        /\ \A p \in ShownPaths(ret.lines) :
              /\ p \in DOMAIN parse_aria_snapshot(aria_tree).path_to_id
              /\ resolve_path_locator(aria_tree, p).status # "KeyError: unknown path"
        /\ \A i \in 1..Len(ret.lines) :
              ret.lines[i].kind = "node" =>
                  /\ Contains(ret.lines[i].text, "[path=" \o ret.lines[i].path \o "]")
                  /\ \A k \in 1..Len(ret.lines[i].preview_paths) :
                        Contains(ret.lines[i].text,
                                 "[path=" \o ret.lines[i].preview_paths[k] \o "]")

\* An unscoped listing with two node lines, one of them with a preview.
C7_Witness ==
    /\ op = "index"
    /\ args.path = None
    /\ ret.status = "ok"
    /\ \E i, j \in 1..Len(ret.lines) :
          /\ i # j
          /\ ret.lines[i].kind = "node" /\ ret.lines[i].preview_paths # <<>>
          /\ ret.lines[j].kind = "node"

\* -------------------------------------------------------- claims: resolver

ParsedNodes == parse_aria_snapshot(aria_tree).nodes

\* The node the resolved locator was computed for, and the node of the path.
TargetNode == ParsedNodes[ret.node_id + 1]

PathNode == ParsedNodes[parse_aria_snapshot(aria_tree).path_to_id[args.path] + 1]

\* Number of nodes before the target in tree order that satisfy P.
EarlierCount(P(_)) ==
    Cardinality({i \in 1..Len(ParsedNodes) :
        ParsedNodes[i].id < TargetNode.id /\ P(ParsedNodes[i])})

SamePair(n) == n.role = TargetNode.role /\ n.name = TargetNode.name

SameRole(n) == n.role = TargetNode.role

SameText(n) == n.role = "text" /\ node_text_value(n) = node_text_value(PathNode)

PairCount ==
    Cardinality({i \in 1..Len(ParsedNodes) : SamePair(ParsedNodes[i])})

\* The text of the example: a heading with two child buttons named "Save".
SaveExample ==
    <<[kind |-> "element", indent |-> 0, role |-> "heading", name |-> Some("Title"), suffix |-> ""],
      [kind |-> "element", indent |-> 2, role |-> "button", name |-> Some("Save"), suffix |-> ""],
      [kind |-> "element", indent |-> 2, role |-> "button", name |-> Some("Save"), suffix |-> ""]>>

ExampleHolds ==
    (op = "resolve" /\ aria_tree = SaveExample) =>
        /\ args.path = "0/0" =>
              (ret.status = "ok" /\ ret.role = "button" /\ ret.name = Some("Save")
               /\ ret.nth = Some(0))
        /\ args.path = "0/1" =>
              (ret.status = "ok" /\ ret.role = "button" /\ ret.name = Some("Save")
               /\ ret.nth = Some(1))

\* C8 as stated: for every path that resolves, nth is the number of earlier
\* nodes whose (role, name) pair equals the target's pair exactly, an absent
\* name matching only an absent name.
C8_Original ==
    (op = "resolve" /\ ret.status = "ok") => ret.nth = Some(EarlierCount(SamePair))

\* C8, amended: for every path that resolves, nth is the number of earlier
\* nodes that the locator built for the target also matches: text nodes with
\* the same text value when the path names a text node that has a text value;
\* else nodes with the target's role and exactly its name when the target has
\* a non-empty name; else every node with the target's role, whatever its
\* name.  The example of the heading with two "Save" buttons holds as stated.
C8_Amended ==
    /\ (op = "resolve" /\ ret.status = "ok") =>
          ret.nth = Some(IF PathNode.role = "text" /\ node_text_value(PathNode) # ""
                         THEN EarlierCount(SameText)
                         ELSE IF Truthy(TargetNode.name) THEN EarlierCount(SamePair)
                         ELSE EarlierCount(SameRole))
    /\ ExampleHolds

\* An unnamed button after a named one resolves with nth 1: the named button
\* is counted although its pair differs.
C8_Witness ==
    /\ op = "resolve"
    /\ ret.status = "ok"
    /\ ret.locator = "get_by_role"
    /\ TargetNode.name = None
    /\ ret.nth = Some(1)
    /\ EarlierCount(SamePair) = 0

\* C9 as stated: when the target's (role, name) pair occurs only once in the
\* full tree, the resolver omits nth.
C9_Original ==
    (op = "resolve" /\ ret.status = "ok" /\ PairCount = 1) => ret.nth = None

\* C9, amended: the resolver never omits nth; when the target's (role, name)
\* pair occurs only once in the full tree and the target has a non-empty name
\* and a role other than text, the index it carries is 0.
C9_Amended ==
    (op = "resolve" /\ ret.status = "ok") =>
        /\ ret.nth # None
        /\ (PairCount = 1 /\ Truthy(TargetNode.name) /\ TargetNode.role # "text")
              => ret.nth = Some(0)

\* A named button whose pair is unique resolves with nth 0 although an
\* unnamed button precedes it.
C9_Witness ==
    /\ op = "resolve"
    /\ ret.status = "ok"
    /\ PairCount = 1
    /\ TargetNode.role = "button"
    /\ Truthy(TargetNode.name)
    /\ EarlierCount(SameRole) = 1
    /\ ret.nth = Some(0)

\* ------------------------------------------------- claims: page listings

\* The node lines of a listing, in order.
NodeLines(lines) == SelectSeq(lines, LAMBDA line : line.kind = "node")

\* A listing without its header line.
IndexBody(lines) ==
    IF lines # <<>> /\ StartsWith(lines[1].text, "index (") THEN Tail(lines) ELSE lines

\* The calls of the operations on a page that reached the page.
OnPage(name) == op = name /\ args.page_id \in DOMAIN pages

\* C11: for a text that parses to no node, an unscoped index build and a
\* search with a non-empty query return without error and their body is the
\* "(empty)" sentinel.
C11_EmptyTreeRendersEmpty ==
    ParsedNodes = <<>> =>
        /\ (OnPage("snapshot_index") /\ args.path = None) =>
              /\ ret.status = "ok"
              /\ IndexBody(ret.lines) = <<TextLine("(empty)")>>
        /\ (OnPage("snapshot_search") /\ args.query # "") =>
              /\ ret.status = "ok"
              /\ ret.body = <<"(empty)">>

\* The example listed from the root with depth 1 and the default node cap.
ExampleIndexed ==
    /\ OnPage("snapshot_index")
    /\ aria_tree = SaveExample
    /\ args.path = None /\ args.depth = 1 /\ args.max_nodes = DefaultMaxNodes

\* C12 as stated: the index of the example at root depth 1 has exactly two
\* lines, counted with or without the header.
C12_Original ==
    ExampleIndexed => (Len(ret.lines) = 2 \/ Len(NodeLines(ret.lines)) = 2)

\* C12 amended: the index of the example at root depth 1 is the header and
\* exactly three node lines, of the heading and of its two buttons.
C12_Amended ==
    ExampleIndexed =>
        /\ ret.status = "ok"
        /\ Len(ret.lines) = 4
        /\ [i \in 1..Len(NodeLines(ret.lines)) |-> NodeLines(ret.lines)[i].path]
               = <<"0", "0/0", "0/1">>

C12_Witness == ExampleIndexed /\ ret.status = "ok"

\* The node lines the same build emits when no cap can cut it.
UncappedCount ==
    Len(NodeLines(build_snapshot_index_text(aria_tree, args.path, args.depth,
                                            Len(aria_tree) + 1, args.text_limit).lines))

\* C13: an index build emits at most max_nodes node lines, and when the cap
\* keeps a node that would be visited from being emitted the listing ends
\* with "... (truncated: returned X of Y)", X the node lines emitted and Y
\* the number of nodes of the parsed tree.
C13_CapAndTruncationLine ==
    (OnPage("snapshot_index") /\ ret.status = "ok") =>
        /\ Len(NodeLines(ret.lines)) <= args.max_nodes
        /\ Len(NodeLines(ret.lines)) < UncappedCount =>
              ret.lines[Len(ret.lines)] =
                  TextLine("... (truncated: returned "
                           \o ToString(Len(NodeLines(ret.lines)))
                           \o " of " \o ToString(Len(ParsedNodes)) \o ")")

\* A build the cap has cut short after it emitted a node line.
C13_Witness ==
    /\ OnPage("snapshot_index")
    /\ ret.status = "ok"
    /\ Len(NodeLines(ret.lines)) = 2
    /\ Len(NodeLines(ret.lines)) < UncappedCount

\* C14: a search returns at most limit result lines, for every limit >= 0.
C14_ResultsAtMostLimit ==
    (op = "search" /\ ret.status = "ok") => Len(ret.results) <= args.limit

\* C17: snapshot_index with path "root" and with path "0" returns the listing
\* of the whole page, the one a call without a path returns, and raises no
\* unknown-path error.
C17_RootAndZeroListThePage ==
    (OnPage("snapshot_index") /\ args.path \in {Some("root"), Some("0")}) =>
        /\ ret.status = "ok"
        /\ IndexBody(ret.lines)
               = IndexBody(build_snapshot_index_text(aria_tree, None, args.depth,
                                                     args.max_nodes, args.text_limit).lines)

\* ----------------------------------------------------- claims: ref map

\* The sections of the returned text that hold an annotated tree.
TreeSections == {k \in 1..Len(ret.sections) : ~ret.sections[k].timed_out}

\* The lines of a section that carry a [ref=@eN] annotation.
Annotated(section) == {i \in 1..Len(section.tree) : section.tree[i].ref # None}

\* Every annotation of the returned text is in the page's ref map with the
\* target its own call assigned to it.
AnnotationsResolve ==
    \A k \in TreeSections : \A i \in Annotated(ret.sections[k]) :
        /\ ret.sections[k].tree[i].ref[1] \in DOMAIN pages[args.page_id].refs
        /\ pages[args.page_id].refs[ret.sections[k].tree[i].ref[1]]
               = ret.sections[k].refs[ret.sections[k].tree[i].ref[1]]

\* C15: after a snapshot call that returned annotated tree text, the page's
\* ref map is the map of that call: every @eN of the text is in it with the
\* target assigned in that call, and no ref of an earlier call is left.
C15_RefMapIsLastSnapshots ==
    (OnPage("snapshot") /\ ret.status = "ok" /\ TreeSections # {}) =>
        /\ AnnotationsResolve
        /\ DOMAIN pages[args.page_id].refs
               = UNION {DOMAIN ret.sections[k].refs : k \in TreeSections}

\* C16: after snapshot_section_snapshot returns, for one path or several,
\* every [ref=@eN] of the returned text resolves through the page's ref map
\* to the (role, name, nth) target of the line that carries it.
C16_SectionRefsActionable ==
    (OnPage("section") /\ args.paths # None /\ ret.status = "ok") => AnnotationsResolve

\* -------------------------------------------------- claims: the session

\* Some start() or open() has got past start() without an error.
StartCompleted ==
    \E t \in 1..MaxTasks :
        \/ tasks[t].kind = "start" /\ tasks[t].pc = "done"
        \/ tasks[t].kind = "open" /\ tasks[t].pc \in {"page", "goto"}
        \/ tasks[t].kind = "open" /\ tasks[t].pc = "done"
              /\ tasks[t].result # "RuntimeError: no browser context"

\* C18: over any start() and open() invocations with no close(), also when
\* they overlap at their awaits, one browser and one browser context are
\* launched: never more than one, and one of each once start() has completed.
C18_StartIdempotent ==
    /\ world.browsers <= 1
    /\ world.contexts <= 1
    /\ StartCompleted => (world.browsers = 1 /\ world.contexts = 1)

\* C20: stream_start on an open page with no active stream completes without
\* error, leaves the page with one running StreamServer and returns it; with
\* page_id "*" it returns a mapping with a running server for every open page.
C20_StreamStartSucceeds ==
    /\ (op = "stream_start" /\ args.page_id \in args.open \ args.streaming) =>
          /\ ret.status = "ok"
          /\ pages[args.page_id].stream_server # None
          /\ pages[args.page_id].stream_server[1].running
          /\ ret.servers = (args.page_id :> pages[args.page_id].stream_server)
    /\ (op = "stream_start" /\ args.page_id = "*") =>
          /\ ret.status = "ok"
          /\ DOMAIN ret.servers = args.open
          /\ \A p \in args.open :
                ret.servers[p] # None /\ ret.servers[p][1].running

\* The entries of the page that pass the call's since filter, in recorded
\* order.
PassingSince ==
    SelectSeq(pages[args.page_id].console,
              LAMBDA entry : args.since = None \/ entry.timestamp >= args.since[1])

\* C19: console_get returns at most limit entries for every limit >= 0 and
\* every since, and they are the most recent entries that pass the since
\* filter, in recorded order.
C19_ConsoleAtMostLimit ==
    (OnPage("console_get") /\ ret.status = "ok") =>
        /\ Len(ret.entries) <= args.limit
        /\ ret.entries = SubSeq(PassingSince,
                                Len(PassingSince) - Min(args.limit, Len(PassingSince)) + 1,
                                Len(PassingSince))

\* ------------------------------------------- claims: parser, any indentation

\* The ids of the nodes before node n whose depth is strictly smaller.
Shallower(nodes, n) ==
    {nodes[j].id : j \in {k \in 1..Len(nodes) : nodes[k].id < n.id /\ nodes[k].depth < n.depth}}

\* The largest member of a non-empty set of numbers.
Largest(S) == CHOOSE x \in S : \A y \in S : y <= x

\* C21: after parsing any text, every node's parent is the nearest preceding
\* node whose depth is strictly smaller than the node's own, and a node with
\* no such predecessor is a root.
C21_ParentIsNearestShallower ==
    op = "parse" =>
        \A i \in 1..Len(ret.nodes) :
            LET n == ret.nodes[i]
                S == Shallower(ret.nodes, n)
            IN  IF S = {} THEN n.parent_id = None /\ IndexIn(ret.root_ids, n.id) # {}
                ELSE n.parent_id = Some(Largest(S))

\* The same statement over the texts whose indentation never jumps.
ParentIsNearestShallowerWhenConsistent ==
    (op = "parse" /\ IndentConsistent(aria_tree)) =>
        \A i \in 1..Len(ret.nodes) :
            LET n == ret.nodes[i]
                S == Shallower(ret.nodes, n)
            IN  IF S = {} THEN n.parent_id = None /\ IndexIn(ret.root_ids, n.id) # {}
                ELSE n.parent_id = Some(Largest(S))

\* ------------------------------------- claims: resolver, unnamed text nodes

\* The ids of the ancestors of a node, from its parent up to its root.
RECURSIVE AncestorsOf(_, _)
AncestorsOf(nodes, parent_id) ==
    IF parent_id = None THEN {}
    ELSE {parent_id[1]} \cup AncestorsOf(nodes, nodes[parent_id[1] + 1].parent_id)

\* A node the resolver can aim a locator at: it has a name or a role other
\* than text.
Nameable(n) == Truthy(n.name) \/ n.role # "text"

NameableAncestors ==
    {a \in AncestorsOf(ParsedNodes, PathNode.parent_id) : Nameable(ParsedNodes[a + 1])}

\* The path of the call names a node of the tree that has role text and no name.
UnnamedTextPath ==
    /\ op = "resolve"
    /\ args.path \in DOMAIN parse_aria_snapshot(aria_tree).path_to_id
    /\ PathNode.role = "text"
    /\ ~Truthy(PathNode.name)

\* C22 as stated: for every path that names a node with role text and no
\* name, the target is the nearest ancestor with a name or a non-text role,
\* and never the unnamed text node itself.
C22_Original ==
    UnnamedTextPath =>
        /\ ret.node_id # PathNode.id
        /\ NameableAncestors # {} =>
              (ret.status = "ok" /\ ret.node_id = Largest(NameableAncestors))

\* C22, amended: for every path that names a node with role text, no name and
\* no inline text after its colon, the target is the nearest ancestor with a
\* name or a non-text role, and never the text node itself; an unnamed text
\* node that carries inline text is itself the target, located by that text.
C22_Amended ==
    UnnamedTextPath =>
        IF node_text_value(PathNode) = ""
        THEN /\ ret.node_id # PathNode.id
             /\ NameableAncestors # {} =>
                   (ret.status = "ok" /\ ret.node_id = Largest(NameableAncestors))
        ELSE /\ ret.status = "ok"
             /\ ret.node_id = PathNode.id
             /\ ret.locator = "get_by_text"
             /\ ret.text = node_text_value(PathNode)

\* A bare text node under a bare text node under a button resolves to the
\* button, two levels up.
C22_Witness ==
    /\ UnnamedTextPath
    /\ node_text_value(PathNode) = ""
    /\ PathNode.depth = 2
    /\ ParsedNodes[PathNode.parent_id[1] + 1].role = "text"
    /\ ~Nameable(ParsedNodes[PathNode.parent_id[1] + 1])
    /\ ret.status = "ok"
    /\ ret.role = "button"
    /\ ret.node_id = Largest(NameableAncestors)

\* A path that is in no path index of the bounds.
AbsentPath == "7"

\* C23 as stated: a path of the index that names an unnamed text node with no
\* ancestor that has a name or a non-text role fails, with an error that
\* differs from the one raised for a path absent from the index.
C23_Original ==
    (UnnamedTextPath /\ NameableAncestors = {}) =>
        /\ ret.status = "KeyError: text node without a name"
        /\ ret.status # resolve_path_locator(aria_tree, AbsentPath).status

\* C23, amended: a path of the index that names a text node with no name and
\* no inline text, and with no ancestor that has a name or a non-text role,
\* fails, with a KeyError whose message differs from the one raised for a
\* path absent from the index; with inline text the node resolves to itself.
C23_Amended ==
    (UnnamedTextPath /\ NameableAncestors = {}) =>
        IF node_text_value(PathNode) = ""
        THEN /\ ret.status = "KeyError: text node without a name"
             /\ ret.status # resolve_path_locator(aria_tree, AbsentPath).status
        ELSE ret.status = "ok" /\ ret.node_id = PathNode.id

\* A bare text node under a bare text root fails to resolve.
C23_Witness ==
    /\ UnnamedTextPath
    /\ node_text_value(PathNode) = ""
    /\ PathNode.parent_id # None
    /\ NameableAncestors = {}
    /\ ret.status = "KeyError: text node without a name"
    /\ resolve_path_locator(aria_tree, AbsentPath).status = "KeyError: unknown path"

\* -------------------------------- claims: reference assigner, line filters

\* Whether the reference assigner keeps the line when the line is the whole
\* text: nothing but the line's own role, name and depth is there to decide.
KeptAlone(line, options) ==
    line.kind = "other" \/ build_snapshot_from_aria_tree(<<line>>, options).tree # <<>>

\* The input lines that are kept when taken alone, in input order.
KeptLines == SelectSeq(aria_tree, LAMBDA line : KeptAlone(line, args))

\* C24: with interactive and/or compact set, the lines of the returned tree
\* are exactly the input lines that are kept when taken alone, in input order,
\* whatever happened to the lines above them, and each retained element line
\* starts with its original indentation, dash and role.
C24_FiltersLineByLine ==
    (op = "refs" /\ aria_tree # <<>> /\ (args.interactive \/ args.compact)) =>
        /\ Len(ret.tree) = Len(KeptLines)
        /\ \A i \in 1..Len(ret.tree) :
              LET out == ret.tree[i]
                  inp == KeptLines[i]
              IN  /\ out.kind = inp.kind
                  /\ inp.kind = "other" => out.text = inp.suffix
                  /\ inp.kind = "element" =>
                        /\ out.role = inp.role
                        /\ out.name = inp.name
                        /\ StartsWith(out.text, Spaces(inp.indent) \o "- " \o inp.role)

\* A structural line without a name is dropped by compact, and the button
\* one level below it stays, indented as it was.
C24_Witness ==
    /\ op = "refs"
    /\ args.compact
    /\ Len(aria_tree) >= 2
    /\ aria_tree[1].kind = "element" /\ aria_tree[1].indent = 0
    /\ ~KeptAlone(aria_tree[1], args)
    /\ aria_tree[2].kind = "element" /\ aria_tree[2].indent = 2
    /\ ret.tree # <<>>
    /\ ret.tree[1].role = aria_tree[2].role
    /\ StartsWith(ret.tree[1].text, "  - ")

\* ------------------------------------------ claims: index, expansion rule

\* Number of path segments between the start set of the build and a path.
Distance(path) ==
    Len(Segments(path)) - (IF args.path = None THEN 1 ELSE Len(Segments(args.path[1])))

\* The expansion rule for a visited node at distance d from the start set.
Expands(d) == d < args.depth /\ (args.path # None \/ d = 0)

\* The node of the parsed tree that has the path.
NodeAt(path) == ParsedNodes[parse_aria_snapshot(aria_tree).path_to_id[path] + 1]

\* The paths that have a line of their own in the listing.
LinePaths == {NodeLines(ret.lines)[i].path : i \in 1..Len(NodeLines(ret.lines))}

\* Children of the node, in order, that have a line of their own.
EmittedChildren(node) ==
    SelectSeq(PathsOf(ParsedNodes, node.children), LAMBDA p : p \in LinePaths)

\* An unscoped build gives no line to a node at tree depth 2 or deeper, and a
\* visited node with children that is not expanded carries a preview of them.
DeepNodesCollapsed ==
    /\ args.path = None => \A p \in LinePaths : Len(Segments(p)) <= 2
    /\ \A i \in 1..Len(NodeLines(ret.lines)) :
          LET line == NodeLines(ret.lines)[i]
          IN  (NodeAt(line.path).children # <<>> /\ ~Expands(Distance(line.path))) =>
                  /\ line.preview_paths # <<>>
                  /\ Contains(line.text, " (grandchildren: ")

\* C25 as stated: in an index build, a visited node at distance d from the
\* start set has its children emitted as lines of their own if and only if
\* d < depth and (a path was given or d = 0); an unscoped build gives no line
\* to a node at tree depth 2 or deeper; a visited node with children that is
\* not expanded carries a collapsed preview.
C25_Original ==
    (OnPage("snapshot_index") /\ ret.status = "ok" /\ aria_tree # <<>>) =>
        /\ \A p \in LinePaths :
              NodeAt(p).children # <<>> =>
                  ((\A c \in 1..Len(NodeAt(p).children) :
                        PathsOf(ParsedNodes, NodeAt(p).children)[c] \in LinePaths)
                   <=> Expands(Distance(p)))
        /\ DeepNodesCollapsed

\* C25, amended: in an index build, a child of a visited node at distance d
\* gets a line of its own only if d < depth and (a path was given or d = 0);
\* when that holds, the children get their lines in order, all of them unless
\* the listing has reached max_nodes node lines, and then a leading part of
\* them; an unscoped build gives no line to a node at tree depth 2 or deeper;
\* a visited node with children that is not expanded carries a collapsed
\* preview.
C25_Amended ==
    (OnPage("snapshot_index") /\ ret.status = "ok" /\ aria_tree # <<>>) =>
        /\ \A p \in LinePaths :
              LET children == PathsOf(ParsedNodes, NodeAt(p).children)
                  emitted  == EmittedChildren(NodeAt(p))
              IN  children # <<>> =>
                    /\ emitted # <<>> => Expands(Distance(p))
                    /\ Expands(Distance(p)) =>
                          /\ emitted = SubSeq(children, 1, Len(emitted))
                          /\ (emitted = children
                              \/ Len(NodeLines(ret.lines)) = args.max_nodes)
        /\ DeepNodesCollapsed

\* A build scoped to a path expands the node one level below its start node,
\* which an unscoped build never does.
C25_Witness ==
    /\ OnPage("snapshot_index")
    /\ ret.status = "ok"
    /\ args.path = Some("0")
    /\ args.depth = 2
    /\ "0/0/0" \in LinePaths
    /\ Expands(Distance("0/0"))

\* ------------------------------------------- claims: search, completeness

\* The nodes of the text whose haystack matches the query of the call.
MatchingNodes ==
    {i \in 1..Len(ParsedNodes) : Matching(Haystack(ParsedNodes[i]), args.query, args.mode)}

\* Every matching node is a result or lies below a result.
EveryMatchRepresented ==
    \A i \in MatchingNodes :
        \E k \in 1..Len(ret.results) : AncestorOrSelf(ret.results[k].path, ParsedNodes[i].path)

\* C26: for any snapshot, non-empty query and limit >= 1, when the search
\* returns fewer than limit results, every node whose haystack matches the
\* query is in the result list or has an ancestor in it.
C26_EveryMatchRepresented ==
    (op = "search" /\ ret.status = "ok" /\ args.query # "" /\ args.limit >= 1
     /\ Len(ret.results) < args.limit)
        => EveryMatchRepresented

\* The same statement for the searches in which fewer than 4 x limit nodes
\* match, so that the candidate list never fills up.
RepresentedBelowCandidateCap ==
    (op = "search" /\ ret.status = "ok" /\ args.query # "" /\ args.limit >= 1
     /\ Len(ret.results) < args.limit /\ Cardinality(MatchingNodes) < 4 * args.limit)
        => EveryMatchRepresented

\* A search below its limit with a matching node under the one result.
RepresentedBelowResult ==
    /\ op = "search" /\ ret.status = "ok" /\ args.limit = 2
    /\ Len(ret.results) = 1
    /\ Cardinality(MatchingNodes) >= 2
    /\ EveryMatchRepresented

\* ------------------------------------------- claims: actions on an element

\* C27: in click, fill, select, press, check, uncheck, upload and inner_html,
\* an argument that neither starts with "@" nor has the form e<digits> is
\* handed to the page's selector engine as a CSS selector, and only "@eN" and
\* "eN" arguments are looked up in the ref map, an unknown ref failing with
\* the unknown-ref error.
C27_OtherArgumentsAreCss ==
    (op \in ElementMethods /\ ret.via # "") =>
        /\ (~StartsWith(args.selector_or_ref, "@") /\ ~IsRefId(args.selector_or_ref)) =>
              /\ ret.via = "css"
              /\ ret.locator.selector = args.selector_or_ref
        /\ ret.via = "ref" =>
              (StartsWith(args.selector_or_ref, "@") \/ IsRefId(args.selector_or_ref))
        /\ (ret.via = "ref" /\ ret.locator.status # "ok") =>
              ret.locator.status = "KeyError: Unknown ref"

\* The same statement for the arguments that hold no slash and are not a
\* number.
CssUnlessPathLike ==
    (op \in ElementMethods /\ ret.via # "" /\ ~is_path(args.selector_or_ref)) =>
        /\ (~StartsWith(args.selector_or_ref, "@") /\ ~IsRefId(args.selector_or_ref)) =>
              /\ ret.via = "css"
              /\ ret.locator.selector = args.selector_or_ref
        /\ ret.via = "ref" =>
              (StartsWith(args.selector_or_ref, "@") \/ IsRefId(args.selector_or_ref))
        /\ (ret.via = "ref" /\ ret.locator.status # "ok") =>
              ret.locator.status = "KeyError: Unknown ref"

\* ------------------------------------ claims: the two disambiguation passes

\* The nth of a ref target, an absent nth read as 0.
NthOrZero(target) == IF target.nth = None THEN 0 ELSE target.nth[1]

\* Without filters every element line is retained, so the i-th retained line
\* is the i-th node of the parse; the nth of its ref and the nth the path
\* resolver computes for its path are the same.
AgreeAt(i) ==
    LET resolved == resolve_path_locator(aria_tree, ParsedNodes[i].path)
    IN  /\ resolved.status = "ok"
        /\ resolved.nth = Some(NthOrZero(TargetAt(i)))

\* C28: with interactive false, compact false and no max_depth, for every
\* node that receives a ref, the nth of its ref target (absent read as 0)
\* equals the nth the path resolver computes for the node's path over the
\* same text.
C28_PassesAgreeUnfiltered ==
    (op = "refs" /\ args = DefaultOptions /\ aria_tree # <<>>) =>
        /\ Len(OutElements) = Len(ParsedNodes)
        /\ \A i \in 1..Len(OutElements) : OutElements[i].ref # None => AgreeAt(i)

\* The same statement for the nodes with a non-empty name.
PassesAgreeOnNamedNodes ==
    (op = "refs" /\ args = DefaultOptions /\ aria_tree # <<>>) =>
        /\ Len(OutElements) = Len(ParsedNodes)
        /\ \A i \in 1..Len(OutElements) :
              (OutElements[i].ref # None /\ Truthy(OutElements[i].name)) => AgreeAt(i)

\* -------------------------------------------- claims: index, truncation line

\* The listing ends with the truncation line.
EndsTruncated ==
    /\ ret.lines # <<>>
    /\ ret.lines[Len(ret.lines)].kind = "text"
    /\ StartsWith(ret.lines[Len(ret.lines)].text, "... (truncated: returned ")

\* C29: an index listing ends with "... (truncated: returned X of Y)" only
\* when the node cap suppressed a node line that the depth and expansion
\* rules would have emitted; a listing that is complete under these rules
\* carries no truncation line.
C29_TruncatedOnlyWhenCut ==
    (op = "index" /\ ret.status = "ok" /\ EndsTruncated) =>
        Len(NodeLines(ret.lines)) < UncappedCount

\* The truncation line is there exactly when the cap is reached and the tree
\* has more nodes than the listing has lines.
TruncatedWhenCapReached ==
    (op = "index" /\ ret.status = "ok" /\ aria_tree # <<>>) =>
        (EndsTruncated <=>
            (Len(NodeLines(ret.lines)) >= args.max_nodes
             /\ Len(NodeLines(ret.lines)) < Len(ParsedNodes)))

\* -------------------------------------------- claims: console, entry order

\* The delivery number of a recorded entry.
DeliveryOf(entry) == CHOOSE k \in 1..MaxEntries : entry.text = MessageText(k)

\* C30: whatever the interleaving of the recording tasks, the entries of a
\* page's recorder are in the order in which the page delivered the console
\* events.
C30_EntriesInDeliveryOrder ==
    \A p \in DOMAIN pages :
        \A i, j \in 1..Len(pages[p].console) :
            i < j => DeliveryOf(pages[p].console[i]) < DeliveryOf(pages[p].console[j])

====
